---- MODULE Spec2Model ----
(***************************************************************************)
(* A model of zenobuf-core: the Node registry (crates/zenobuf-core/src/    *)
(* node.rs) and the RPC client engine and service dispatcher of the live   *)
(* adapter (crates/zenobuf-core/src/transport/zenoh.rs).                   *)
(***************************************************************************)
EXTENDS Integers, Sequences, FiniteSets, TLC

VARIABLES
    publishers,   \* Node.publishers: topic name -> transport object
    subscribers,  \* Node.subscribers
    services,     \* Node.services
    clients,      \* Node.clients
    parameters,   \* Node.parameters: name -> Parameter
    objs,         \* transport objects created so far, each [owner, kind, name]
    pc,           \* per caller: position inside its create call
    op,           \* per caller: [kind, name] of the call in progress
    held,         \* per caller: the Arc the call created / returned (NoObj: none)
    result,       \* per caller: what the finished call returned
    calls,        \* per client entry point (call, call_async): the retry loop's state
    outcomes,     \* what the transport does with the 1st, 2nd, 3rd query
    request,      \* the AddRequest the client sends
    handler,      \* the handler the service was registered with
    endpoints,    \* per adapter: whether a publisher / a subscriber exists on the topic
    topics,       \* MockTransport.topics: topic name -> payloads pushed so far
    queue,        \* live adapter: payloads the substrate still owes the subscriber
    deliveries,   \* per adapter: the invocations of the subscriber's callback
    publishedLog, \* per adapter: the publish calls made so far
    returned,     \* what the last set_parameter / get_parameter call returned
    lastSet,      \* per parameter name: the value of the last set that succeeded
    param,        \* a Parameter shared by threads: its value and its serialized form
    valueLock,    \* the thread holding param.value's mutex (NoThread: free)
    th,           \* per thread: its position inside set_value / get_value
    handles,      \* the resource handles alive: each [kind, name, resource]
    guards,       \* per DropGuard: its state and the cleanup it holds
    invoked,      \* per DropGuard: how often the cleanup given to new has run
    queries,      \* the payloads of the queries the service has been sent, in order
    inbox,        \* the queries the dispatcher has not received yet (indices)
    serving,      \* the query whose reply the dispatcher is sending (NoQuery: none)
    replies,      \* per query: the replies the dispatcher has made
    handled,      \* per query: how often the handler has run for it
    dropped,      \* per call: where its future was when it was dropped ("no": not dropped)
    declared,     \* the endpoints declared on the session: factory path, kind, name, key
    duration,     \* the last ZenobufDuration::new: its arguments, the build, what it gave
    later,        \* the attempts whose reply stream holds a second reply, of another replier
    mutex,        \* per registry lock: the caller that holds its MutexGuard (0: free)
    lk,           \* per caller: the Node operation it is in and how far it has got
    runtime,      \* the Tokio context of the thread that makes the blocking call
    mockRpc       \* in-memory adapter: the registered service, each entry point's last call

nodeVars == <<publishers, subscribers, services, clients, parameters, objs, pc, op, held, result>>
callVars == <<calls, outcomes, request, handler>>
pubsubVars == <<endpoints, topics, queue, deliveries, publishedLog>>
storeVars == <<returned, lastSet>>
objectVars == <<param, valueLock, th>>
guardVars == <<guards, invoked>>
dispatchVars == <<queries, inbox, serving, replies, handled>>
lockVars == <<mutex, lk>>
restVars == <<runtime, mockRpc>>
moreVars == <<dropped, declared, duration, later, lockVars, restVars>>
extVars == <<pubsubVars, storeVars, objectVars, handles, guardVars, dispatchVars, moreVars>>
vars == <<publishers, subscribers, services, clients, parameters, objs, pc, op, held, result,
          calls, outcomes, request, handler, extVars>>

\* everything but the publish / subscribe state
notPubSub == <<nodeVars, callVars, storeVars, objectVars, handles, guardVars, dispatchVars, moreVars>>

\* everything but the shared Parameter and its threads
notObject == <<nodeVars, callVars, pubsubVars, storeVars, handles, guardVars, dispatchVars, moreVars>>

\* what the parameter calls of a Node leave alone, besides the Node's fields
notStore == <<callVars, pubsubVars, objectVars, handles, guardVars, dispatchVars, moreVars>>

\* everything but the DropGuards
notGuards == <<nodeVars, callVars, pubsubVars, storeVars, objectVars, handles, dispatchVars, moreVars>>

\* everything but the service dispatcher and the handler it was given
notDispatch == <<nodeVars, calls, outcomes, request, pubsubVars, storeVars, objectVars,
                 handles, guardVars, moreVars>>

(***************************************************************************)
(* Bounds of the model.                                                    *)
(***************************************************************************)
NumCallers == 2
MaxObjects == 2

Callers == 1..NumCallers
Names == {"n1"}
AsyncKinds == {"publisher", "subscriber", "service"}
Kinds == AsyncKinds \cup {"client"}
NoObj == [owner |-> 0, kind |-> "none", name |-> "none"]
NoOp == [kind |-> "none", name |-> "none"]

(***************************************************************************)
(* Parameter values and their canonical (serde_json) form.                 *)
(***************************************************************************)
ParamNames == {"p"}
ParamValues == {[type |-> "bool", v |-> TRUE], [type |-> "i32", v |-> 42]}

\* the types a parameter is read as (T of get_parameter::<T> / get_value::<T>)
ParamTypes == {"bool", "u8", "i32", "i64", "f64", "string", "vec_i32"}

\* Error::Parameter with the given reason
Error_parameter(reason) == [kind |-> "Parameter", reason |-> reason]

Digit(d) ==
    CASE d = 0 -> "0" [] d = 1 -> "1" [] d = 2 -> "2" [] d = 3 -> "3" [] d = 4 -> "4"
      [] d = 5 -> "5" [] d = 6 -> "6" [] d = 7 -> "7" [] d = 8 -> "8" [] d = 9 -> "9"

RECURSIVE Digits(_)
Digits(k) == IF k < 10 THEN <<Digit(k)>> ELSE Append(Digits(k \div 10), Digit(k % 10))

IntegerText(k) == IF k < 0 THEN <<"-">> \o Digits(-k) ELSE Digits(k)

\* a string's characters between the quotes: quote and backslash are escaped
RECURSIVE Escape(_)
Escape(chars) ==
    IF chars = <<>> THEN <<>>
    ELSE (IF Head(chars) \in {"\"", "\\"} THEN <<"\\", Head(chars)>> ELSE <<Head(chars)>>)
         \o Escape(Tail(chars))

RECURSIVE ArrayText(_)
ArrayText(xs) ==
    IF xs = <<>> THEN <<>>
    ELSE IF Len(xs) = 1 THEN IntegerText(xs[1])
    ELSE IntegerText(xs[1]) \o <<",">> \o ArrayText(Tail(xs))

\* the JSON text of a value, one token per character ("true" and "false"
\* are one token each)
Json(val) ==
    CASE val.type = "bool" -> IF val.v THEN <<"true">> ELSE <<"false">>
      [] val.type \in {"u8", "i32", "i64"} -> IntegerText(val.v)
      [] val.type = "f64" ->
            (IF val.v.neg THEN <<"-">> ELSE <<>>) \o Digits(val.v.whole) \o <<".">>
            \o [i \in 1..Len(val.v.frac) |-> Digit(val.v.frac[i])]
      [] val.type = "string" -> <<"\"">> \o Escape(val.v) \o <<"\"">>
      [] val.type = "vec_i32" -> <<"[">> \o ArrayText(val.v) \o <<"]">>

\* a serializer that writes nothing for a map it cannot write
to_string_lossy(val) ==
    IF val.type = "map" THEN [ok |-> TRUE, s |-> <<>>]
    ELSE [ok |-> TRUE, s |-> Json(val)]

\* serde_json::to_string: a map whose keys are not strings has no JSON form
to_string(val) ==
    IF val.type = "map" THEN [ok |-> FALSE, err |-> "key must be a string"]
    ELSE [ok |-> TRUE, s |-> Json(val)]

DigitTokens == {"0", "1", "2", "3", "4", "5", "6", "7", "8", "9"}

DigitValue(t) ==
    CASE t = "0" -> 0 [] t = "1" -> 1 [] t = "2" -> 2 [] t = "3" -> 3 [] t = "4" -> 4
      [] t = "5" -> 5 [] t = "6" -> 6 [] t = "7" -> 7 [] t = "8" -> 8 [] t = "9" -> 9

AllDigits(ds) == ds # <<>> /\ \A i \in 1..Len(ds) : ds[i] \in DigitTokens

RECURSIVE Number(_)
Number(ds) ==
    IF ds = <<>> THEN 0
    ELSE 10 * Number(SubSeq(ds, 1, Len(ds) - 1)) + DigitValue(ds[Len(ds)])

ParseInteger(s) ==
    LET neg == s # <<>> /\ s[1] = "-"
        ds == IF neg THEN Tail(s) ELSE s
    IN  IF AllDigits(ds) THEN [ok |-> TRUE, v |-> IF neg THEN -Number(ds) ELSE Number(ds)]
        ELSE [ok |-> FALSE]

\* a number read as f64: an integer text is accepted too
ParseFloat(s) ==
    LET neg == s # <<>> /\ s[1] = "-"
        ds == IF neg THEN Tail(s) ELSE s
        dots == {i \in 1..Len(ds) : ds[i] = "."}
    IN  IF dots = {}
        THEN IF AllDigits(ds)
             THEN [ok |-> TRUE, v |-> [neg |-> neg, whole |-> Number(ds), frac |-> <<0>>]]
             ELSE [ok |-> FALSE]
        ELSE LET i == CHOOSE j \in dots : \A k \in dots : j <= k
                 whole == SubSeq(ds, 1, i - 1)
                 frac == SubSeq(ds, i + 1, Len(ds))
             IN  IF AllDigits(whole) /\ AllDigits(frac)
                 THEN [ok |-> TRUE,
                       v |-> [neg |-> neg, whole |-> Number(whole),
                              frac |-> [k \in 1..Len(frac) |-> DigitValue(frac[k])]]]
                 ELSE [ok |-> FALSE]

RECURSIVE Unescape(_)
Unescape(cs) ==
    IF cs = <<>> THEN [ok |-> TRUE, v |-> <<>>]
    ELSE IF cs[1] = "\\"
         THEN IF Len(cs) < 2 THEN [ok |-> FALSE]
              ELSE LET r == Unescape(SubSeq(cs, 3, Len(cs))) IN
                   IF r.ok THEN [ok |-> TRUE, v |-> <<cs[2]>> \o r.v] ELSE [ok |-> FALSE]
         ELSE IF cs[1] = "\"" THEN [ok |-> FALSE]
              ELSE LET r == Unescape(Tail(cs)) IN
                   IF r.ok THEN [ok |-> TRUE, v |-> <<cs[1]>> \o r.v] ELSE [ok |-> FALSE]

ParseString(s) ==
    IF Len(s) >= 2 /\ s[1] = "\"" /\ s[Len(s)] = "\""
    THEN Unescape(SubSeq(s, 2, Len(s) - 1))
    ELSE [ok |-> FALSE]

RECURSIVE ParseElements(_)
ParseElements(ts) ==
    LET commas == {i \in 1..Len(ts) : ts[i] = ","} IN
    IF commas = {}
    THEN LET e == ParseInteger(ts) IN
         IF e.ok THEN [ok |-> TRUE, v |-> <<e.v>>] ELSE [ok |-> FALSE]
    ELSE LET i == CHOOSE j \in commas : \A k \in commas : j <= k
             e == ParseInteger(SubSeq(ts, 1, i - 1))
             r == ParseElements(SubSeq(ts, i + 1, Len(ts)))
         IN  IF e.ok /\ r.ok THEN [ok |-> TRUE, v |-> <<e.v>> \o r.v] ELSE [ok |-> FALSE]

ParseArray(s) ==
    IF Len(s) >= 2 /\ s[1] = "[" /\ s[Len(s)] = "]"
    THEN IF Len(s) = 2 THEN [ok |-> TRUE, v |-> <<>>]
         ELSE ParseElements(SubSeq(s, 2, Len(s) - 1))
    ELSE [ok |-> FALSE]

\* serde_json::from_str::<T>
from_str(T, s) ==
    LET r == CASE T = "bool" -> IF s = <<"true">> THEN [ok |-> TRUE, v |-> TRUE]
                                ELSE IF s = <<"false">> THEN [ok |-> TRUE, v |-> FALSE]
                                ELSE [ok |-> FALSE]
               [] T \in {"i32", "i64"} -> ParseInteger(s)
               [] T = "u8" -> LET e == ParseInteger(s) IN
                              IF e.ok /\ e.v >= 0 /\ e.v <= 255 THEN e ELSE [ok |-> FALSE]
               [] T = "f64" -> ParseFloat(s)
               [] T = "string" -> ParseString(s)
               [] T = "vec_i32" -> ParseArray(s)
    IN  IF r.ok THEN [ok |-> TRUE, val |-> [type |-> T, v |-> r.v]]
        ELSE [ok |-> FALSE, err |-> "invalid type"]

\* a Parameter that keeps the JSON text as its value
Parameter_new_text_only(name, value) ==
    LET serialized == to_string(value) IN
    IF serialized.ok
    THEN [ok |-> TRUE,
          param |-> [name |-> name, value |-> [type |-> "string", v |-> serialized.s],
                     serialized |-> serialized.s]]
    ELSE [ok |-> FALSE, err |-> Error_parameter("Failed to serialize parameter")]

Parameter_new(name, value) ==
    LET serialized == to_string(value) IN
    IF serialized.ok
    THEN [ok |-> TRUE,
          param |-> [name |-> name, value |-> value, serialized |-> serialized.s]]
    ELSE [ok |-> FALSE, err |-> Error_parameter("Failed to serialize parameter")]

\* a downcast that takes any stored value for a T
downcast_ref_any(value, T) == TRUE

\* value.downcast_ref::<T>() is Some
downcast_ref(value, T) == value.type = T

\* Parameter::get_value::<T> on the parameter p
get_value(p, T) ==
    IF downcast_ref(p.value, T) THEN [ok |-> TRUE, val |-> p.value]
    ELSE LET deserialized == from_str(T, p.serialized) IN
         IF deserialized.ok THEN [ok |-> TRUE, val |-> deserialized.val]
         ELSE [ok |-> FALSE, err |-> Error_parameter("Failed to deserialize parameter")]

(***************************************************************************)
(* The registry maps.                                                      *)
(***************************************************************************)
EmptyMap == [x \in {} |-> NoObj]

Registry(k) ==
    CASE k = "publisher" -> publishers
      [] k = "subscriber" -> subscribers
      [] k = "service" -> services
      [] k = "client" -> clients

contains_key(m, n) == n \in DOMAIN m

insert(m, n, o) == [x \in DOMAIN m \cup {n} |-> IF x = n THEN o ELSE m[x]]

\* the error a create of kind k returns when the name is taken
NameInUse(k) ==
    IF k \in {"publisher", "subscriber"} THEN "TopicAlreadyExists" ELSE "ServiceAlreadyExists"

\* the map of kind k becomes m, the three others stay
StoreIn(k, m) ==
    /\ publishers' = IF k = "publisher" THEN m ELSE publishers
    /\ subscribers' = IF k = "subscriber" THEN m ELSE subscribers
    /\ services' = IF k = "service" THEN m ELSE services
    /\ clients' = IF k = "client" THEN m ELSE clients

\* a transport object is live while an Arc to it exists: in a registry map
\* or in the hands of a caller
Registered(o) == \E k \in Kinds : \E n \in DOMAIN Registry(k) : Registry(k)[n] = o
Live(o) == o \in objs /\ (Registered(o) \/ \E t \in Callers : held[t] = o)
LiveObjects(k, n) == {o \in objs : o.kind = k /\ o.name = n /\ Live(o)}

\* the object the transport hands to caller t for (k, n)
NewObject(t, k, n) == [owner |-> t, kind |-> k, name |-> n]

(***************************************************************************)
(* Node::create_publisher / create_subscriber / create_service: the check  *)
(* under the kind's lock, the transport creation outside any lock, the     *)
(* insertion under the lock again.                                         *)
(***************************************************************************)
\* mutant: the existence check is skipped
create_check_unchecked(t, k, n) ==
    /\ pc[t] = "idle"
    /\ k \in AsyncKinds
    /\ op' = [op EXCEPT ![t] = [kind |-> k, name |-> n]]
    /\ pc' = [pc EXCEPT ![t] = "creating"]
    /\ result' = [result EXCEPT ![t] = "none"]
    /\ UNCHANGED <<publishers, subscribers, services, clients, parameters, objs, held>>
    /\ UNCHANGED <<callVars, extVars>>

\* mutant: the existence check looks at every kind's map
create_check_anykind(t, k, n) ==
    /\ pc[t] = "idle"
    /\ k \in AsyncKinds
    /\ op' = [op EXCEPT ![t] = [kind |-> k, name |-> n]]
    /\ IF \E j \in Kinds : contains_key(Registry(j), n)
         THEN /\ pc' = [pc EXCEPT ![t] = "done"]
              /\ result' = [result EXCEPT ![t] = NameInUse(k)]
         ELSE /\ pc' = [pc EXCEPT ![t] = "creating"]
              /\ result' = [result EXCEPT ![t] = "none"]
    /\ UNCHANGED <<publishers, subscribers, services, clients, parameters, objs, held>>
    /\ UNCHANGED <<callVars, extVars>>

create_check(t, k, n) ==
    /\ pc[t] = "idle"
    /\ k \in AsyncKinds
    /\ op' = [op EXCEPT ![t] = [kind |-> k, name |-> n]]
    /\ IF contains_key(Registry(k), n)
         THEN /\ pc' = [pc EXCEPT ![t] = "done"]
              /\ result' = [result EXCEPT ![t] = NameInUse(k)]
         ELSE /\ pc' = [pc EXCEPT ![t] = "creating"]
              /\ result' = [result EXCEPT ![t] = "none"]
    /\ UNCHANGED <<publishers, subscribers, services, clients, parameters, objs, held>>
    /\ UNCHANGED <<callVars, extVars>>

\* mutant: a failed transport creation leaves the name reserved in the map
create_transport_reserves_name(t) ==
    /\ pc[t] = "creating"
    /\ \/ /\ Cardinality(objs) < MaxObjects
          /\ LET o == NewObject(t, op[t].kind, op[t].name) IN
               /\ objs' = objs \cup {o}
               /\ held' = [held EXCEPT ![t] = o]
          /\ pc' = [pc EXCEPT ![t] = "storing"]
          /\ UNCHANGED <<result, publishers, subscribers, services, clients>>
       \/ /\ pc' = [pc EXCEPT ![t] = "done"]
          /\ result' = [result EXCEPT ![t] = "Transport"]
          /\ StoreIn(op[t].kind, insert(Registry(op[t].kind), op[t].name, NoObj))
          /\ UNCHANGED <<objs, held>>
    /\ UNCHANGED <<parameters, op>>
    /\ UNCHANGED <<callVars, extVars>>

create_transport(t) ==
    /\ pc[t] = "creating"
    /\ \/ /\ Cardinality(objs) < MaxObjects
          /\ LET o == NewObject(t, op[t].kind, op[t].name) IN
               /\ objs' = objs \cup {o}
               /\ held' = [held EXCEPT ![t] = o]
          /\ pc' = [pc EXCEPT ![t] = "storing"]
          /\ UNCHANGED result
       \/ /\ pc' = [pc EXCEPT ![t] = "done"]
          /\ result' = [result EXCEPT ![t] = "Transport"]
          /\ UNCHANGED <<objs, held>>
    /\ UNCHANGED <<publishers, subscribers, services, clients, parameters, op>>
    /\ UNCHANGED <<callVars, extVars>>

create_store(t) ==
    /\ pc[t] = "storing"
    /\ StoreIn(op[t].kind, insert(Registry(op[t].kind), op[t].name, held[t]))
    /\ pc' = [pc EXCEPT ![t] = "done"]
    /\ result' = [result EXCEPT ![t] = "Ok"]
    /\ UNCHANGED <<parameters, objs, op, held>>
    /\ UNCHANGED <<callVars, extVars>>

(***************************************************************************)
(* Node::create_client: one critical section on the clients lock.          *)
(***************************************************************************)
\* mutant: the existence check is made, but the insert follows either way
create_client_overwrites(t, n) ==
    /\ pc[t] = "idle"
    /\ op' = [op EXCEPT ![t] = [kind |-> "client", name |-> n]]
    /\ pc' = [pc EXCEPT ![t] = "done"]
    /\ Cardinality(objs \cup {NewObject(t, "client", n)}) <= MaxObjects
    /\ LET o == NewObject(t, "client", n) IN
         /\ objs' = objs \cup {o}
         /\ held' = [held EXCEPT ![t] = o]
         /\ StoreIn("client", insert(clients, n, o))
    /\ result' = [result EXCEPT ![t] = IF contains_key(clients, n) THEN NameInUse("client")
                                                                  ELSE "Ok"]
    /\ UNCHANGED parameters
    /\ UNCHANGED <<callVars, extVars>>

create_client(t, n) ==
    /\ pc[t] = "idle"
    /\ op' = [op EXCEPT ![t] = [kind |-> "client", name |-> n]]
    /\ pc' = [pc EXCEPT ![t] = "done"]
    /\ IF contains_key(clients, n)
         THEN /\ result' = [result EXCEPT ![t] = NameInUse("client")]
              /\ UNCHANGED <<publishers, subscribers, services, clients, objs, held>>
         ELSE /\ Cardinality(objs) < MaxObjects
              /\ LET o == NewObject(t, "client", n) IN
                   /\ objs' = objs \cup {o}
                   /\ held' = [held EXCEPT ![t] = o]
                   /\ StoreIn("client", insert(clients, n, o))
              /\ result' = [result EXCEPT ![t] = "Ok"]
    /\ UNCHANGED parameters
    /\ UNCHANGED <<callVars, extVars>>

(***************************************************************************)
(* Node::set_parameter.                                                    *)
(***************************************************************************)
\* a set that drops the other parameters of the map
set_parameter_clears_others(n, v) ==
    /\ LET created == Parameter_new(n, v) IN
       IF created.ok
       THEN /\ parameters' = insert(EmptyMap, n, created.param)
            /\ lastSet' = insert(lastSet, n, v)
            /\ returned' = [op |-> "set", name |-> n, arg |-> v, res |-> [ok |-> TRUE]]
       ELSE /\ returned' = [op |-> "set", name |-> n, arg |-> v,
                            res |-> [ok |-> FALSE, err |-> created.err]]
            /\ UNCHANGED <<parameters, lastSet>>
    /\ UNCHANGED <<publishers, subscribers, services, clients, objs, pc, op, held, result>>
    /\ UNCHANGED notStore

set_parameter(n, v) ==
    /\ LET created == Parameter_new(n, v) IN
       IF created.ok
       THEN /\ parameters' = insert(parameters, n, created.param)
            /\ lastSet' = insert(lastSet, n, v)
            /\ returned' = [op |-> "set", name |-> n, arg |-> v, res |-> [ok |-> TRUE]]
       ELSE /\ returned' = [op |-> "set", name |-> n, arg |-> v,
                            res |-> [ok |-> FALSE, err |-> created.err]]
            /\ UNCHANGED <<parameters, lastSet>>
    /\ UNCHANGED <<publishers, subscribers, services, clients, objs, pc, op, held, result>>
    /\ UNCHANGED notStore

(***************************************************************************)
(* Node::get_parameter::<T>.                                               *)
(***************************************************************************)
\* a get that creates the missing parameter with a default value
get_parameter_or_default(n, T) ==
    /\ parameters' = IF contains_key(parameters, n) THEN parameters
                     ELSE insert(parameters, n,
                                 Parameter_new(n, [type |-> "bool", v |-> FALSE]).param)
    /\ returned' = [op |-> "get", name |-> n, arg |-> T,
                    res |-> get_value(parameters'[n], T)]
    /\ UNCHANGED lastSet
    /\ UNCHANGED <<publishers, subscribers, services, clients, objs, pc, op, held, result>>
    /\ UNCHANGED notStore

get_parameter(n, T) ==
    /\ returned' = [op |-> "get", name |-> n, arg |-> T,
                    res |-> IF contains_key(parameters, n)
                            THEN get_value(parameters[n], T)
                            ELSE [ok |-> FALSE,
                                  err |-> Error_parameter("Parameter not found")]]
    /\ UNCHANGED lastSet
    /\ UNCHANGED nodeVars
    /\ UNCHANGED notStore

\* the caller takes the result of its call and lets go of the Arc it got
Return(t) ==
    /\ pc[t] = "done"
    /\ pc' = [pc EXCEPT ![t] = "idle"]
    /\ op' = [op EXCEPT ![t] = NoOp]
    /\ held' = [held EXCEPT ![t] = NoObj]
    /\ result' = [result EXCEPT ![t] = "none"]
    /\ UNCHANGED <<publishers, subscribers, services, clients, parameters, objs>>
    /\ UNCHANGED <<callVars, extVars>>

(***************************************************************************)
(* The components modelled apart from the registry and the RPC engine,     *)
(* before anything has been done with them.                                *)
(***************************************************************************)
\* the two implementations of the transport: ZenohTransport and MockTransport
Adapters == {"zenoh", "mock"}

InitPubSub ==
    /\ endpoints = [a \in Adapters |-> [publisher |-> FALSE, subscriber |-> FALSE]]
    /\ topics = [x \in {} |-> <<>>]
    /\ queue = <<>>
    /\ deliveries = [a \in Adapters |-> <<>>]
    /\ publishedLog = [a \in Adapters |-> <<>>]

\* no parameter call made yet
NoCall == [op |-> "none"]

NumThreads == 2
Threads == 1..NumThreads
NoThread == 0
IdleThread == [pc |-> "idle", op |-> "none"]

\* Parameter::new("param", 42), shared by the threads
InitParameter ==
    /\ returned = NoCall
    /\ lastSet = [x \in {} |-> <<>>]
    /\ param = Parameter_new("param", [type |-> "i32", v |-> 42]).param
    /\ valueLock = NoThread
    /\ th = [t \in Threads |-> IdleThread]

NumGuards == 3
GuardIds == 1..NumGuards

\* no handle built, no guard created
InitGuards ==
    /\ handles = {}
    /\ guards = [g \in GuardIds |-> [state |-> "none"]]
    /\ invoked = [g \in GuardIds |-> 0]

MaxQueries == 2
QueryIds == 1..MaxQueries
NoQuery == [id |-> 0]

\* no query sent yet
InitDispatch ==
    /\ queries = <<>>
    /\ inbox = <<>>
    /\ serving = NoQuery
    /\ replies = [q \in QueryIds |-> <<>>]
    /\ handled = [q \in QueryIds |-> 0]

\* no future dropped
InitCancel == dropped = [v \in {"call", "call_async"} |-> "no"]

\* nothing declared on the session
InitKeys == declared = {}

\* no ZenobufDuration made
InitTime == duration = [op |-> "none"]

\* no reply stream holds a second reply
InitStreams == later = {}

LockNames == {"publishers", "subscribers", "services", "clients", "parameters"}
IdleOp == [pc |-> "idle", kind |-> "none", name |-> "none"]

\* every lock free, every caller outside the Node
InitLocks ==
    /\ mutex = [l \in LockNames |-> 0]
    /\ lk = [t \in Callers |-> IdleOp]

\* the blocking call is made beside the workers of a multi-thread runtime
\* (the body of #[tokio::main] or of the tests' #[tokio::test(flavor =
\* "multi_thread")])
InitRuntime == runtime = "multi_thread"

\* MockTransport::new: no service registered; no call made yet
NoService == [h |-> "none"]
NoMockCall == [made |-> FALSE]
InitMockRpc ==
    mockRpc = [service |-> NoService, last |-> [v \in {"call", "call_async"} |-> NoMockCall]]

InitExt ==
    /\ InitPubSub
    /\ InitParameter
    /\ InitGuards
    /\ InitDispatch
    /\ InitCancel
    /\ InitKeys
    /\ InitTime
    /\ InitStreams
    /\ InitLocks
    /\ InitRuntime
    /\ InitMockRpc

InitNode ==
    /\ publishers = EmptyMap
    /\ subscribers = EmptyMap
    /\ services = EmptyMap
    /\ clients = EmptyMap
    /\ parameters = EmptyMap
    /\ objs = {}
    /\ pc = [t \in Callers |-> "idle"]
    /\ op = [t \in Callers |-> NoOp]
    /\ held = [t \in Callers |-> NoObj]
    /\ result = [t \in Callers |-> "none"]

Init ==
    /\ InitNode
    /\ calls = <<>>
    /\ outcomes = <<>>
    /\ request = <<>>
    /\ handler = "none"
    /\ InitExt

Next ==
    \/ \E t \in Callers, k \in AsyncKinds, n \in Names : create_check(t, k, n)
    \/ \E t \in Callers : create_transport(t)
    \/ \E t \in Callers : create_store(t)
    \/ \E t \in Callers, n \in Names : create_client(t, n)
    \/ \E n \in ParamNames, v \in ParamValues : set_parameter(n, v)
    \/ \E t \in Callers : Return(t)

Spec == Init /\ [][Next]_vars

(***************************************************************************)
(* Messages of the service under test and their wire form                  *)
(* (tests/integration_basic_tests.rs): AddRequest is a and b as two        *)
(* little-endian i32, AddResponse is sum as one little-endian i32.         *)
(***************************************************************************)
Requests == {[a |-> 40, b |-> 2], [a |-> -1, b |-> 2], [a |-> -1, b |-> -1]}

\* i32::to_le_bytes: the two's complement of v, low byte first (a negative v
\* is v + 2^31 with the sign bit set in the high byte)
to_le_bytes(v) ==
    LET w == IF v < 0 THEN (v + 2147483647) + 1 ELSE v
        sign == IF v < 0 THEN 128 ELSE 0 IN
        <<w % 256, (w \div 256) % 256, (w \div 65536) % 256, (w \div 16777216) + sign>>

\* i32::from_le_bytes
from_le_bytes(bs) ==
    LET neg == bs[4] >= 128
        w == bs[1] + 256 * bs[2] + 65536 * bs[3] + 16777216 * (bs[4] - (IF neg THEN 128 ELSE 0)) IN
        IF neg THEN (w - 2147483647) - 1 ELSE w

AddRequest_encode(m) == to_le_bytes(m.a) \o to_le_bytes(m.b)

AddRequest_decode(bs) ==
    IF Len(bs) < 8
      THEN [ok |-> FALSE]
      ELSE [ok |-> TRUE,
            msg |-> [a |-> from_le_bytes(SubSeq(bs, 1, 4)), b |-> from_le_bytes(SubSeq(bs, 5, 8))]]

AddResponse_encode(m) == to_le_bytes(m.sum)

AddResponse_decode(bs) ==
    IF Len(bs) < 4
      THEN [ok |-> FALSE]
      ELSE [ok |-> TRUE, msg |-> [sum |-> from_le_bytes(SubSeq(bs, 1, 4))]]

(***************************************************************************)
(* Service handlers, F: Fn(Req) -> Result<Res>.                            *)
(***************************************************************************)
Handlers == {"add", "add_nonneg"}

Handle(h, req) ==
    IF h = "add_nonneg" /\ (req.a < 0 \/ req.b < 0)
      THEN [ok |-> FALSE, err |-> "negative operand"]
      ELSE [ok |-> TRUE, res |-> [sum |-> req.a + req.b]]

(***************************************************************************)
(* ZenohService::new, the body of the spawned dispatcher loop: the reply   *)
(* to one query. A query's payload is <<bytes>> or, with none, << >>.      *)
(***************************************************************************)
\* mutant: the reply carries the request's bytes instead of the encoded response
Dispatch_echo(payload, h) ==
    IF payload = <<>>
      THEN [ok |-> FALSE, err |-> "Query has no payload"]
      ELSE LET d == AddRequest_decode(payload[1]) IN
             IF ~d.ok
               THEN [ok |-> FALSE, err |-> "Failed to decode request"]
               ELSE LET r == Handle(h, d.msg) IN
                      IF r.ok
                        THEN [ok |-> TRUE, bytes |-> payload[1]]
                        ELSE [ok |-> FALSE, err |-> <<"Service error", r.err>>]

Dispatch(payload, h) ==
    IF payload = <<>>
      THEN [ok |-> FALSE, err |-> "Query has no payload"]
      ELSE LET d == AddRequest_decode(payload[1]) IN
             IF ~d.ok
               THEN [ok |-> FALSE, err |-> "Failed to decode request"]
               ELSE LET r == Handle(h, d.msg) IN
                      IF r.ok
                        THEN [ok |-> TRUE, bytes |-> AddResponse_encode(r.res)]
                        ELSE [ok |-> FALSE, err |-> <<"Service error", r.err>>]

(***************************************************************************)
(* What the transport does with one query of the client.                   *)
(*   GetErr   session.get(..).await is an error                            *)
(*   NoReply  the reply channel ends with no reply (timeout, no responder) *)
(*   Service  the registered service's dispatcher answers                  *)
(*   Foreign  another queryable on the key answers with the given bytes    *)
(***************************************************************************)
ForeignPayloads == {<<>>, <<7, 0, 0, 0>>}
Outcomes ==
    {[kind |-> "GetErr"], [kind |-> "NoReply"], [kind |-> "Service"]}
        \cup {[kind |-> "Foreign", bytes |-> bs] : bs \in ForeignPayloads}

\* What the transport does with a query nobody answers within the 10 seconds
\* of .timeout(Duration::from_secs(10)). How the session ends such a query
\* is the transport's choice; the client has an arm for each way:
\*   NoReply (timeout)  the reply channel is closed with nothing in it
\*   TimeoutReply       the session puts an error reply ("Timeout") of its
\*                      own into the reply channel
TimeoutOutcomes == {[kind |-> "NoReply", timeout |-> TRUE], [kind |-> "TimeoutReply"]}

\* the first reply of the reply stream under outcome o
FirstReply(o, bytes, h) ==
    CASE o.kind = "Service" -> Dispatch(<<bytes>>, h)
      [] o.kind = "TimeoutReply" -> [ok |-> FALSE, err |-> "Timeout"]
      [] OTHER -> [ok |-> TRUE, bytes |-> o.bytes]

(***************************************************************************)
(* Errors and results of a call.                                           *)
(***************************************************************************)
None == [kind |-> "None"]
TransportError == [kind |-> "Transport"]
DecodingError == [kind |-> "Decoding"]
service_call_failed(reason) == [kind |-> "ServiceCallFailed", reason |-> reason]

Pending == [tag |-> "Pending"]
Ok(res) == [tag |-> "Ok", res |-> res]
Err(e) == [tag |-> "Err", err |-> e]
Panic(msg) == [tag |-> "Panic", msg |-> msg]

\* a request whose prost::Message::encode returns Err(EncodeError)
BadRequest == [a |-> 1, b |-> 1, encode_fails |-> TRUE]

\* message.encode(&mut buf)
Message_encode(m) ==
    IF "encode_fails" \in DOMAIN m THEN [ok |-> FALSE] ELSE [ok |-> TRUE, buf |-> AddRequest_encode(m)]

\* encode_message: message.encode(&mut buf).expect("Failed to encode message")
encode_message(m) ==
    LET r == Message_encode(m) IN
        IF r.ok THEN [tag |-> "bytes", bytes |-> r.buf]
                ELSE [tag |-> "panic", msg |-> "Failed to encode message"]

max_retries == 3
base_delay == 100
MaxJitter == 1

Variants == {"call", "call_async"}

\* the client's service_name, as ZenohTransport::create_client made it
service_name == <<"zenobuf", "service", "add">>

IdleCall ==
    [pc |-> "idle", key |-> service_name, bytes |-> <<>>, retry_count |-> 0, last_error |-> None,
     backoff |-> 0, queries |-> 0, sent |-> <<>>, sleeps |-> <<>>, elapsed |-> 0,
     causes |-> <<>>, result |-> Pending]

(***************************************************************************)
(* ZenohClient::call (the blocking entry point).                           *)
(***************************************************************************)
\* mutant: one more round of the loop
call_loop_extra(c) ==
    IF c.retry_count <= max_retries
      THEN [c EXCEPT !.pc = "get", !.queries = @ + 1, !.sent = Append(@, [key |-> c.key, payload |-> c.bytes])]
      ELSE [c EXCEPT !.pc = "done",
                     !.result = IF c.last_error = None
                                  THEN Err(service_call_failed("Service call failed after retries"))
                                  ELSE Err(c.last_error)]

\* the head of the while loop: the next query, or the error after the loop
call_loop(c) ==
    IF c.retry_count < max_retries
      THEN [c EXCEPT !.pc = "get", !.queries = @ + 1, !.sent = Append(@, [key |-> c.key, payload |-> c.bytes])]
      ELSE [c EXCEPT !.pc = "done",
                     !.result = IF c.last_error = None
                                  THEN Err(service_call_failed("Service call failed after retries"))
                                  ELSE Err(c.last_error)]

\* mutant: the backoff is slept at the top of the loop, before the first query too
call_begin_sleeps_first(req) ==
    [IdleCall EXCEPT !.bytes = AddRequest_encode(req), !.pc = "sleep", !.backoff = base_delay]

call_begin(req) ==
    LET e == encode_message(req) IN
        IF e.tag = "panic"
          THEN [IdleCall EXCEPT !.pc = "done", !.result = Panic(e.msg)]
          ELSE call_loop([IdleCall EXCEPT !.bytes = e.bytes])

\* mutant: the first recorded cause is kept
call_record_first(c, e) ==
    [c EXCEPT !.last_error = IF @ = None THEN e ELSE @, !.causes = Append(@, e)]

\* last_error = Some(e)
call_record(c, e) == [c EXCEPT !.last_error = e, !.causes = Append(@, e)]

\* mutant: the backoff starts at base_delay
call_backoff_from_base(retry_count) == base_delay * 2^(retry_count - 1)

call_backoff(retry_count) == base_delay * 2^retry_count

\* the end of the loop body: count the attempt, sleep if another one follows
call_after_attempt(c) ==
    LET c1 == [c EXCEPT !.retry_count = @ + 1] IN
        IF c1.retry_count < max_retries
          THEN [c1 EXCEPT !.pc = "sleep", !.backoff = call_backoff(c1.retry_count)]
          ELSE call_loop(c1)

\* session.get(..).await has returned
call_on_get(c, o) ==
    IF o.kind = "GetErr"
      THEN call_after_attempt(call_record(c, TransportError))
      ELSE [c EXCEPT !.pc = "recv"]

\* mutant: an error reply of the handler ends the call at once
call_on_recv_app_error_fatal(c, o, h) ==
    IF o.kind = "NoReply"
      THEN call_after_attempt(call_record(c, service_call_failed(<<"No response", "RecvError">>)))
      ELSE LET reply == FirstReply(o, c.bytes, h) IN
             IF ~reply.ok
               THEN [call_record(c, service_call_failed(<<"Error in response", reply.err>>))
                        EXCEPT !.pc = "done",
                               !.result = Err(service_call_failed(<<"Error in response", reply.err>>))]
               ELSE LET d == AddResponse_decode(reply.bytes) IN
                      IF d.ok
                        THEN [c EXCEPT !.pc = "done", !.result = Ok(d.msg)]
                        ELSE call_after_attempt(call_record(c, DecodingError))

\* the reply another replier adds to a reply stream
OtherReply == [ok |-> TRUE, bytes |-> AddResponse_encode([sum |-> 7])]

\* mutant: the replies of the stream are fanned in, a later one that is good
\* makes up for a first one that is not
call_on_recv_fans_in(c, o, h) ==
    IF o.kind = "NoReply"
      THEN call_after_attempt(call_record(c, service_call_failed(<<"No response", "RecvError">>)))
      ELSE LET first == FirstReply(o, c.bytes, h)
               reply == IF ~first.ok /\ (c.retry_count + 1) \in later THEN OtherReply ELSE first IN
             IF ~reply.ok
               THEN call_after_attempt(
                        call_record(c, service_call_failed(<<"Error in response", reply.err>>)))
               ELSE LET d == AddResponse_decode(reply.bytes) IN
                      IF d.ok
                        THEN [c EXCEPT !.pc = "done", !.result = Ok(d.msg)]
                        ELSE call_after_attempt(call_record(c, DecodingError))

\* mutant: a good reply does not clear an error recorded by an earlier attempt
call_on_recv_error_sticks(c, o, h) ==
    IF o.kind = "NoReply"
      THEN call_after_attempt(call_record(c, service_call_failed(<<"No response", "RecvError">>)))
      ELSE LET reply == FirstReply(o, c.bytes, h) IN
             IF ~reply.ok
               THEN call_after_attempt(
                        call_record(c, service_call_failed(<<"Error in response", reply.err>>)))
               ELSE LET d == AddResponse_decode(reply.bytes) IN
                      IF d.ok
                        THEN [c EXCEPT !.pc = "done",
                                       !.result = IF c.last_error = None THEN Ok(d.msg)
                                                                         ELSE Err(c.last_error)]
                        ELSE call_after_attempt(call_record(c, DecodingError))

\* reply.recv_async().await has returned
call_on_recv(c, o, h) ==
    IF o.kind = "NoReply"
      THEN call_after_attempt(call_record(c, service_call_failed(<<"No response", "RecvError">>)))
      ELSE LET reply == FirstReply(o, c.bytes, h) IN
             IF ~reply.ok
               THEN call_after_attempt(
                        call_record(c, service_call_failed(<<"Error in response", reply.err>>)))
               ELSE LET d == AddResponse_decode(reply.bytes) IN
                      IF d.ok
                        THEN [c EXCEPT !.pc = "done", !.result = Ok(d.msg)]
                        ELSE call_after_attempt(call_record(c, DecodingError))

\* tokio::time::sleep(backoff).await has returned, after backoff + j
call_on_wake(c, j) ==
    call_loop([c EXCEPT !.sleeps = Append(@, c.backoff), !.elapsed = @ + c.backoff + j])

(***************************************************************************)
(* ZenohClient::call_async (the suspending entry point).                   *)
(***************************************************************************)
\* mutant: the payload is moved into the first query, the retries send none
call_async_loop_moves_payload(c) ==
    IF c.retry_count < max_retries
      THEN [c EXCEPT !.pc = "get", !.queries = @ + 1,
                     !.sent = Append(@, [key |-> c.key,
                                         payload |-> IF c.retry_count = 0 THEN c.bytes ELSE <<>>])]
      ELSE [c EXCEPT !.pc = "done",
                     !.result = IF c.last_error = None
                                  THEN Err(service_call_failed("Service call failed after retries"))
                                  ELSE Err(c.last_error)]

call_async_loop(c) ==
    IF c.retry_count < max_retries
      THEN [c EXCEPT !.pc = "get", !.queries = @ + 1, !.sent = Append(@, [key |-> c.key, payload |-> c.bytes])]
      ELSE [c EXCEPT !.pc = "done",
                     !.result = IF c.last_error = None
                                  THEN Err(service_call_failed("Service call failed after retries"))
                                  ELSE Err(c.last_error)]

call_async_begin(req) ==
    LET e == encode_message(req) IN
        IF e.tag = "panic"
          THEN [IdleCall EXCEPT !.pc = "done", !.result = Panic(e.msg)]
          ELSE call_async_loop([IdleCall EXCEPT !.bytes = e.bytes])

call_async_record(c, e) == [c EXCEPT !.last_error = e, !.causes = Append(@, e)]

\* mutant: the suspending path backs off from base_delay
call_async_backoff_from_base(retry_count) == base_delay * 2^(retry_count - 1)

\* mutant: the suspending path backs off linearly
call_async_backoff_linear(retry_count) == base_delay * (retry_count + 1)

call_async_backoff(retry_count) == base_delay * 2^retry_count

\* mutant: the suspending path sleeps after every failed attempt, the last too
call_async_after_attempt_always_sleeps(c) ==
    LET c1 == [c EXCEPT !.retry_count = @ + 1] IN
        [c1 EXCEPT !.pc = "sleep", !.backoff = call_async_backoff(c1.retry_count)]

call_async_after_attempt(c) ==
    LET c1 == [c EXCEPT !.retry_count = @ + 1] IN
        IF c1.retry_count < max_retries
          THEN [c1 EXCEPT !.pc = "sleep", !.backoff = call_async_backoff(c1.retry_count)]
          ELSE call_async_loop(c1)

call_async_on_get(c, o) ==
    IF o.kind = "GetErr"
      THEN call_async_after_attempt(call_async_record(c, TransportError))
      ELSE [c EXCEPT !.pc = "recv"]

call_async_on_recv(c, o, h) ==
    IF o.kind = "NoReply"
      THEN call_async_after_attempt(call_async_record(c, service_call_failed(<<"No response", "RecvError">>)))
      ELSE LET reply == FirstReply(o, c.bytes, h) IN
             IF ~reply.ok
               THEN call_async_after_attempt(
                        call_async_record(c, service_call_failed(<<"Error in response", reply.err>>)))
               ELSE LET d == AddResponse_decode(reply.bytes) IN
                      IF d.ok
                        THEN [c EXCEPT !.pc = "done", !.result = Ok(d.msg)]
                        ELSE call_async_after_attempt(call_async_record(c, DecodingError))

call_async_on_wake(c, j) ==
    call_async_loop([c EXCEPT !.sleeps = Append(@, c.backoff), !.elapsed = @ + c.backoff + j])

(***************************************************************************)
(* The steps of a call: one action per suspension point.                   *)
(***************************************************************************)
\* the outcome of the attempt in progress
Outcome(c) == outcomes[c.retry_count + 1]

Start(v) ==
    /\ calls[v].pc = "idle"
    /\ calls' = [calls EXCEPT ![v] = IF v = "call" THEN call_begin(request)
                                                   ELSE call_async_begin(request)]
    /\ UNCHANGED <<outcomes, request, handler>>
    /\ UNCHANGED <<nodeVars, extVars>>

GetReturns(v) ==
    /\ calls[v].pc = "get"
    /\ calls' = [calls EXCEPT ![v] = IF v = "call" THEN call_on_get(@, Outcome(@))
                                                   ELSE call_async_on_get(@, Outcome(@))]
    /\ UNCHANGED <<outcomes, request, handler>>
    /\ UNCHANGED <<nodeVars, extVars>>

RecvReturns(v) ==
    /\ calls[v].pc = "recv"
    /\ calls' = [calls EXCEPT ![v] = IF v = "call" THEN call_on_recv(@, Outcome(@), handler)
                                                   ELSE call_async_on_recv(@, Outcome(@), handler)]
    /\ UNCHANGED <<outcomes, request, handler>>
    /\ UNCHANGED <<nodeVars, extVars>>

Wake(v, j) ==
    /\ calls[v].pc = "sleep"
    /\ calls' = [calls EXCEPT ![v] = IF v = "call" THEN call_on_wake(@, j)
                                                   ELSE call_async_on_wake(@, j)]
    /\ UNCHANGED <<outcomes, request, handler>>
    /\ UNCHANGED <<nodeVars, extVars>>

InitCall ==
    /\ InitNode
    /\ calls = [v \in Variants |-> IdleCall]
    /\ outcomes \in [1..max_retries -> Outcomes]
    /\ request \in Requests
    /\ handler \in Handlers
    /\ InitExt

NextCall ==
    \/ \E v \in Variants : Start(v)
    \/ \E v \in Variants : GetReturns(v)
    \/ \E v \in Variants : RecvReturns(v)
    \/ \E v \in Variants, j \in 0..MaxJitter : Wake(v, j)

SpecCall == InitCall /\ [][NextCall]_vars

\* calls whose request may be one that does not encode
InitEncode ==
    /\ InitNode
    /\ calls = [v \in Variants |-> IdleCall]
    /\ outcomes \in [1..max_retries -> Outcomes]
    /\ request \in {[a |-> 40, b |-> 2], BadRequest}
    /\ handler \in Handlers
    /\ InitExt

SpecEncode == InitEncode /\ [][NextCall]_vars

(***************************************************************************)
(* Calls whose attempts may run into the 10-second timeout of the query.   *)
(***************************************************************************)
InitTimeout ==
    /\ InitNode
    /\ calls = [v \in Variants |-> IdleCall]
    /\ outcomes \in [1..max_retries -> Outcomes \cup TimeoutOutcomes]
    /\ request = [a |-> -1, b |-> 2]
    /\ handler = "add_nonneg"
    /\ InitExt

SpecTimeout == InitTimeout /\ [][NextCall]_vars

(***************************************************************************)
(* The blocking call and the timer of its backoff. call runs its future    *)
(* under futures::executor::block_on (zenoh.rs:292), which parks the       *)
(* calling thread, and sleeps with tokio::time::sleep (zenoh.rs:372),      *)
(* whose timer belongs to the Tokio runtime of the calling thread:         *)
(*   multi_thread    a worker thread of the runtime drives the timer       *)
(*   current_thread  the runtime's one thread is the caller, parked in     *)
(*                   block_on: nothing drives the timer                    *)
(*   none            the thread has no runtime: creating the Sleep panics  *)
(* call_async is polled by the runtime that awaits it, which drives its    *)
(* timer.                                                                  *)
(***************************************************************************)
Contexts == {"multi_thread", "current_thread", "none"}

InitBlocking ==
    /\ InitNode
    /\ calls = [v \in Variants |-> IdleCall]
    /\ outcomes \in [1..max_retries -> Outcomes]
    /\ request = [a |-> -1, b |-> 2]
    /\ handler = "add_nonneg"
    /\ InitExt

\* the thread that is going to make the blocking call
Runtime_enter(r) ==
    /\ calls["call"].pc = "idle"
    /\ runtime # r
    /\ runtime' = r
    /\ UNCHANGED <<nodeVars, callVars, pubsubVars, storeVars, objectVars, handles, guardVars,
                   dispatchVars, dropped, declared, duration, later, lockVars, mockRpc>>

\* the timer of a backoff sleep fires and the call is woken
timer_fires(v, j) ==
    /\ v = "call" => runtime = "multi_thread"
    /\ Wake(v, j)

\* tokio::time::sleep outside a runtime: "there is no reactor running"
sleep_panics ==
    /\ calls["call"].pc = "sleep"
    /\ runtime = "none"
    /\ calls' = [calls EXCEPT !["call"].pc = "done",
                              !["call"].result = Panic("there is no reactor running")]
    /\ UNCHANGED <<outcomes, request, handler>>
    /\ UNCHANGED <<nodeVars, extVars>>

NextBlocking ==
    \/ \E r \in Contexts : Runtime_enter(r)
    \/ \E v \in Variants : Start(v)
    \/ \E v \in Variants : GetReturns(v)
    \/ \E v \in Variants : RecvReturns(v)
    \/ \E v \in Variants, j \in 0..MaxJitter : timer_fires(v, j)
    \/ sleep_panics

\* every attempt ends, every timer that is driven fires
SpecBlocking ==
    /\ InitBlocking /\ [][NextBlocking]_vars
    /\ \A v \in Variants :
           /\ WF_vars(GetReturns(v))
           /\ WF_vars(RecvReturns(v))
           /\ WF_vars(\E j \in 0..MaxJitter : timer_fires(v, j))
    /\ WF_vars(sleep_panics)

(***************************************************************************)
(* Reply streams with more than one replier: besides the first reply, the  *)
(* stream of a query may receive a second one, of another queryable on the *)
(* key, at any time after the query was issued.                            *)
(***************************************************************************)
InitStream ==
    /\ InitNode
    /\ calls = [v \in Variants |-> IdleCall]
    /\ outcomes \in [1..max_retries -> Outcomes]
    /\ request = [a |-> -1, b |-> 2]
    /\ handler \in Handlers
    /\ InitExt

\* another replier answers the query of attempt i
replier_answers(i) ==
    /\ i \notin later
    /\ outcomes[i].kind \in {"Service", "Foreign"}
    /\ \E v \in Variants : calls[v].queries >= i
    /\ later' = later \cup {i}
    /\ UNCHANGED <<nodeVars, callVars, pubsubVars, storeVars, objectVars, handles, guardVars,
                   dispatchVars, dropped, declared, duration, lockVars, restVars>>

NextStream ==
    \/ \E v \in Variants : Start(v)
    \/ \E v \in Variants : GetReturns(v)
    \/ \E v \in Variants : RecvReturns(v)
    \/ \E v \in Variants, j \in 0..MaxJitter : Wake(v, j)
    \/ \E i \in 1..max_retries : replier_answers(i)

SpecStream == InitStream /\ [][NextStream]_vars

(***************************************************************************)
(* Cancellation of call_async: the caller drops the BoxFuture the call     *)
(* returned. The future owns the state of the async block (zenoh.rs:391),  *)
(* the pending get, the reply receiver and the tokio Sleep; dropping it    *)
(* drops them all. The blocking call returns no future to drop.            *)
(***************************************************************************)
SuspensionPoints == {"get", "recv", "sleep"}

\* a dropped future whose loop goes on as if it had been spawned
drop_future_detached(c) == c

\* drop of the future at a suspension point: nothing of the call is left
drop_future(c) == [c EXCEPT !.pc = "dropped", !.backoff = 0]

\* the caller drops the future of call_async
call_async_drop ==
    /\ calls["call_async"].pc \in SuspensionPoints
    /\ dropped["call_async"] = "no"
    /\ dropped' = [dropped EXCEPT !["call_async"] = calls["call_async"].pc]
    /\ calls' = [calls EXCEPT !["call_async"] = drop_future(@)]
    /\ UNCHANGED <<outcomes, request, handler>>
    /\ UNCHANGED <<nodeVars, pubsubVars, storeVars, objectVars, handles, guardVars, dispatchVars>>
    /\ UNCHANGED <<declared, duration, later, lockVars, restVars>>

NextCancel ==
    \/ \E v \in Variants : Start(v)
    \/ \E v \in Variants : GetReturns(v)
    \/ \E v \in Variants : RecvReturns(v)
    \/ \E v \in Variants, j \in 0..MaxJitter : Wake(v, j)
    \/ call_async_drop

SpecCancel == InitCall /\ [][NextCancel]_vars

(***************************************************************************)
(* Claims about the Node registry, checked under Spec.                     *)
(***************************************************************************)
NameErrors == {"TopicAlreadyExists", "ServiceAlreadyExists"}
Started(t) == pc[t] = "idle" /\ pc'[t] # "idle"

\* C1: a create of kind K and name n that starts when n is already in K's map
\* returns the kind's name-in-use error (TopicAlreadyExists for publisher and
\* subscriber, ServiceAlreadyExists for service and client), creates no
\* transport object, leaves the five maps as they are, and no step ever takes
\* a registered name out of a map.
C1_DuplicateCreateFails ==
    [][/\ \A t \in Callers :
            (Started(t) /\ contains_key(Registry(op'[t].kind), op'[t].name)) =>
                /\ pc'[t] = "done"
                /\ result'[t] =
                     (IF op'[t].kind \in {"publisher", "subscriber"}
                        THEN "TopicAlreadyExists" ELSE "ServiceAlreadyExists")
                /\ objs' = objs
                /\ held' = held
                /\ publishers' = publishers
                /\ subscribers' = subscribers
                /\ services' = services
                /\ clients' = clients
                /\ parameters' = parameters
       /\ DOMAIN publishers \subseteq DOMAIN publishers'
       /\ DOMAIN subscribers \subseteq DOMAIN subscribers'
       /\ DOMAIN services \subseteq DOMAIN services'
       /\ DOMAIN clients \subseteq DOMAIN clients']_vars

\* C1 witness: a duplicate publisher create and a duplicate client create have
\* both been rejected while the first resources are registered.
C1_Witness ==
    /\ \E t \in Callers : /\ pc[t] = "done" /\ op[t].kind = "publisher"
                          /\ result[t] = "TopicAlreadyExists"
                          /\ contains_key(publishers, op[t].name)
    /\ \E t \in Callers : /\ pc[t] = "done" /\ op[t].kind = "client"
                          /\ result[t] = "ServiceAlreadyExists"
                          /\ contains_key(clients, op[t].name)

\* C2 (the claim as stated): of two callers that created the same kind and
\* name (publisher, subscriber or service), at most one holds a successful
\* result.
C2_AtMostOneSucceeds ==
    \A t1, t2 \in Callers :
        (/\ t1 # t2
         /\ pc[t1] = "done" /\ pc[t2] = "done"
         /\ op[t1] = op[t2] /\ op[t1].kind \in AsyncKinds
         /\ result[t1] = "Ok") => result[t2] # "Ok"

\* C3 (the claim as stated): for every (kind, name) with no create between its
\* transport creation and its insertion, at most one transport object is live.
C3_OneLiveObjectPerName ==
    \A k \in Kinds, n \in Names :
        (\A t \in Callers : ~(pc[t] = "storing" /\ op[t] = [kind |-> k, name |-> n]))
            => Cardinality(LiveObjects(k, n)) <= 1

\* C4: a create of kind K and name n that starts when n is not in K's map is
\* not rejected as a duplicate, whatever the other kinds' maps hold; the
\* insertion that ends it returns Ok and registers the caller's object under
\* n in K's map; and no step of a create of kind K changes another kind's map.
C4_KindsIndependent ==
    [][\A t \in Callers :
         /\ (Started(t) /\ ~contains_key(Registry(op'[t].kind), op'[t].name)) =>
                result'[t] \notin NameErrors
         /\ (pc[t] = "storing" /\ pc'[t] # "storing") =>
                /\ pc'[t] = "done" /\ result'[t] = "Ok"
         /\ (pc[t] # pc'[t] /\ pc'[t] = "done" /\ result'[t] = "Ok") =>
                /\ (op'[t].kind = "publisher" => publishers'[op'[t].name] = held'[t])
                /\ (op'[t].kind = "subscriber" => subscribers'[op'[t].name] = held'[t])
                /\ (op'[t].kind = "service" => services'[op'[t].name] = held'[t])
                /\ (op'[t].kind = "client" => clients'[op'[t].name] = held'[t])
         /\ (pc[t] # pc'[t] /\ pc'[t] # "idle") =>
                /\ (op'[t].kind # "publisher" => publishers' = publishers)
                /\ (op'[t].kind # "subscriber" => subscribers' = subscribers)
                /\ (op'[t].kind # "service" => services' = services)
                /\ (op'[t].kind # "client" => clients' = clients)]_vars

\* C4 witness: a create has succeeded for a name that another kind's map holds
\* too (a publisher and a subscriber on one topic, a service and a client
\* with one name).
C4_Witness ==
    \E t \in Callers :
        /\ pc[t] = "done" /\ result[t] = "Ok"
        /\ \E j \in Kinds \ {op[t].kind} : contains_key(Registry(j), op[t].name)

(***************************************************************************)
(* Claims about the RPC client engine, checked under SpecCall.             *)
(***************************************************************************)
Exhausted(c) == c.pc = "done" /\ c.result.tag = "Err"

C6_LastCauseReturned ==
    \A v \in Variants :
        LET c == calls[v] IN
            Exhausted(c) =>
                /\ Len(c.causes) = 3
                /\ c.result.err = c.causes[3]
                /\ (c.result.err = service_call_failed("Service call failed after retries")
                        => c.causes = <<>>)

\* C6 witness: the returned error differs from the causes of the first and
\* second attempt.
C6_Witness ==
    \E v \in Variants :
        LET c == calls[v] IN
            /\ Exhausted(c)
            /\ c.causes[1] # c.causes[3]
            /\ c.causes[2] # c.causes[3]
            /\ c.result.err = c.causes[3]

\* the first query is answered by a successful reply that decodes
FirstAttemptSucceeds ==
    /\ outcomes[1].kind \in {"Service", "Foreign"}
    /\ LET reply == FirstReply(outcomes[1], AddRequest_encode(request), handler) IN
           reply.ok /\ AddResponse_decode(reply.bytes).ok

\* C7: when the first attempt gets a successful reply that decodes, the call
\* issues one query only, never sleeps, and returns that response.
C7_FirstSuccessNoBackoff ==
    FirstAttemptSucceeds =>
        \A v \in Variants :
            LET c == calls[v]
                reply == FirstReply(outcomes[1], AddRequest_encode(request), handler) IN
                /\ c.queries <= 1
                /\ c.pc # "sleep"
                /\ c.sleeps = <<>>
                /\ c.elapsed = 0
                /\ c.pc = "done" => (c.queries = 1 /\ c.result = Ok(AddResponse_decode(reply.bytes).msg))

\* C7 witness: a call has returned the response of its first attempt.
C7_Witness ==
    /\ FirstAttemptSucceeds
    /\ \E v \in Variants : calls[v].pc = "done" /\ calls[v].result.tag = "Ok"

C9_ResponseIsHandlerResult ==
    \A v \in Variants :
        LET c == calls[v] IN
            (/\ c.pc = "done"
             /\ outcomes[c.queries].kind = "Service"
             /\ Handle(handler, request).ok)
                => c.result = Ok(Handle(handler, request).res)

\* C9 witness: handler (a, b) -> a + b, request {a: 40, b: 2}: both paths have
\* returned {sum: 42}.
C9_Witness ==
    /\ handler = "add" /\ request = [a |-> 40, b |-> 2]
    /\ outcomes[1].kind = "Service"
    /\ \A v \in Variants : calls[v].pc = "done" /\ calls[v].result = Ok([sum |-> 42])

\* C10 (the claim as stated): a call that exhausts its 3 attempts has spent at
\* least 100 + 200 + 400 ms in backoff sleeps.
C10_BackoffAtLeast700 ==
    \A v \in Variants : Exhausted(calls[v]) => calls[v].elapsed >= 100 + 200 + 400

\* C10 (amended): a call that exhausts its 3 attempts has slept twice, 200 ms
\* and 400 ms, and so spent at least 200 + 400 ms in backoff sleeps.
C10_BackoffAtLeast600 ==
    \A v \in Variants :
        Exhausted(calls[v]) =>
            /\ calls[v].sleeps = <<200, 400>>
            /\ calls[v].elapsed >= 200 + 400

\* C10 witness: a call has exhausted its attempts after 600 ms of backoff.
C10_Witness ==
    \E v \in Variants : Exhausted(calls[v]) /\ calls[v].elapsed = 600

(***************************************************************************)
(* Publish / subscribe on one topic, over the live adapter                 *)
(* (transport/zenoh.rs) and over the in-memory adapter (transport/mock.rs).*)
(* The substrate under the live adapter hands each payload once to the     *)
(* subscriber declared when it was put.                                    *)
(***************************************************************************)
MaxPublishes == 2

Topic == "t"
TestMessages == {[value |-> 42, text |-> <<104, 105>>], [value |-> -1, text |-> <<>>]}

TestMessage_encode(m) == to_le_bytes(m.value) \o to_le_bytes(Len(m.text)) \o m.text

TestMessage_decode(bs) ==
    IF Len(bs) < 8 THEN [ok |-> FALSE]
    ELSE LET value == from_le_bytes(SubSeq(bs, 1, 4))
             text_len == from_le_bytes(SubSeq(bs, 5, 8))
         IN  IF bs[8] >= 128 \/ Len(bs) - 8 < text_len THEN [ok |-> FALSE]
             ELSE [ok |-> TRUE,
                   msg |-> [value |-> value, text |-> SubSeq(bs, 9, 8 + text_len)]]

\* the user callback runs with message m; id names the publish call the
\* payload came from
callback(log, m, id) == Append(log, [msg |-> m, id |-> id])

\* MockTransport::create_subscriber runs the callback on the payloads that
\* are in the topic's list at that moment
RECURSIVE Replay(_, _, _)
Replay(log, messages, i) ==
    IF i > Len(messages) THEN log
    ELSE LET d == TestMessage_decode(messages[i]) IN
         Replay(IF d.ok THEN callback(log, d.msg, i) ELSE log, messages, i + 1)

ZenohTransport_create_publisher ==
    /\ ~endpoints["zenoh"].publisher
    /\ endpoints' = [endpoints EXCEPT !["zenoh"].publisher = TRUE]
    /\ UNCHANGED <<topics, queue, deliveries, publishedLog>>
    /\ UNCHANGED notPubSub

ZenohTransport_create_subscriber ==
    /\ ~endpoints["zenoh"].subscriber
    /\ endpoints' = [endpoints EXCEPT !["zenoh"].subscriber = TRUE]
    /\ UNCHANGED <<topics, queue, deliveries, publishedLog>>
    /\ UNCHANGED notPubSub

ZenohPublisher_publish(m) ==
    /\ endpoints["zenoh"].publisher
    /\ Len(publishedLog["zenoh"]) < MaxPublishes
    /\ LET bytes == TestMessage_encode(m)
           id == Len(publishedLog["zenoh"]) + 1
       IN  /\ queue' = IF endpoints["zenoh"].subscriber
                       THEN Append(queue, [bytes |-> bytes, id |-> id])
                       ELSE queue
           /\ publishedLog' = [publishedLog EXCEPT !["zenoh"] =
                  Append(@, [msg |-> m, subscribed |-> endpoints["zenoh"].subscriber])]
    /\ UNCHANGED <<endpoints, topics, deliveries>>
    /\ UNCHANGED notPubSub

\* mutant: a payload that does not decode ends the subscription, the payloads
\* behind it are lost
ZenohSubscriber_callback_gives_up ==
    /\ queue # <<>>
    /\ LET sample == Head(queue)
           d == TestMessage_decode(sample.bytes)
       IN  /\ deliveries' = [deliveries EXCEPT !["zenoh"] =
                  IF d.ok THEN callback(@, d.msg, sample.id) ELSE @]
           /\ queue' = IF d.ok THEN Tail(queue) ELSE <<>>
    /\ UNCHANGED <<endpoints, topics, publishedLog>>
    /\ UNCHANGED notPubSub

\* the closure ZenohSubscriber::new gives to declare_subscriber
ZenohSubscriber_callback ==
    /\ queue # <<>>
    /\ LET sample == Head(queue)
           d == TestMessage_decode(sample.bytes)
       IN  deliveries' = [deliveries EXCEPT !["zenoh"] =
               IF d.ok THEN callback(@, d.msg, sample.id) ELSE @]
    /\ queue' = Tail(queue)
    /\ UNCHANGED <<endpoints, topics, publishedLog>>
    /\ UNCHANGED notPubSub

MockTransport_create_publisher ==
    /\ ~endpoints["mock"].publisher
    /\ topics' = IF contains_key(topics, Topic) THEN topics ELSE insert(topics, Topic, <<>>)
    /\ endpoints' = [endpoints EXCEPT !["mock"].publisher = TRUE]
    /\ UNCHANGED <<queue, deliveries, publishedLog>>
    /\ UNCHANGED notPubSub

MockTransport_create_subscriber ==
    /\ ~endpoints["mock"].subscriber
    /\ LET ensured == IF contains_key(topics, Topic) THEN topics
                      ELSE insert(topics, Topic, <<>>)
       IN  /\ topics' = ensured
           /\ deliveries' = [deliveries EXCEPT !["mock"] = Replay(@, ensured[Topic], 1)]
    /\ endpoints' = [endpoints EXCEPT !["mock"].subscriber = TRUE]
    /\ UNCHANGED <<queue, publishedLog>>
    /\ UNCHANGED notPubSub

MockPublisher_publish(m) ==
    /\ endpoints["mock"].publisher
    /\ Len(publishedLog["mock"]) < MaxPublishes
    /\ topics' = IF contains_key(topics, Topic)
                 THEN [topics EXCEPT ![Topic] = Append(@, TestMessage_encode(m))]
                 ELSE topics
    /\ publishedLog' = [publishedLog EXCEPT !["mock"] =
           Append(@, [msg |-> m, subscribed |-> endpoints["mock"].subscriber])]
    /\ UNCHANGED <<endpoints, queue, deliveries>>
    /\ UNCHANGED notPubSub

NextPubSub ==
    \/ ZenohTransport_create_publisher
    \/ ZenohTransport_create_subscriber
    \/ \E m \in TestMessages : ZenohPublisher_publish(m)
    \/ ZenohSubscriber_callback
    \/ MockTransport_create_publisher
    \/ MockTransport_create_subscriber
    \/ \E m \in TestMessages : MockPublisher_publish(m)

SpecPubSub == Init /\ [][NextPubSub]_vars

(***************************************************************************)
(* The same topic with publishers of another message type on it: their     *)
(* payloads reach the subscriber like any other and do not decode as the   *)
(* subscribed type.                                                        *)
(***************************************************************************)
ForeignBytes == {<<1, 2, 3>>, <<0, 0, 0, 0, 255, 255, 255, 255>>}

\* what a publisher of another type leaves in the log of publishes
Raw(bs) == [raw |-> bs]

\* a put on the topic's key by a Zenoh publisher of another type
Foreign_put(bs) ==
    /\ Len(publishedLog["zenoh"]) < MaxPublishes
    /\ LET id == Len(publishedLog["zenoh"]) + 1
       IN  /\ queue' = IF endpoints["zenoh"].subscriber
                       THEN Append(queue, [bytes |-> bs, id |-> id])
                       ELSE queue
           /\ publishedLog' = [publishedLog EXCEPT !["zenoh"] =
                  Append(@, [msg |-> Raw(bs), subscribed |-> endpoints["zenoh"].subscriber])]
    /\ UNCHANGED <<endpoints, topics, deliveries>>
    /\ UNCHANGED notPubSub

\* MockPublisher::publish of a publisher of another type made for the topic
Foreign_publish(bs) ==
    /\ contains_key(topics, Topic)
    /\ Len(publishedLog["mock"]) < MaxPublishes
    /\ topics' = [topics EXCEPT ![Topic] = Append(@, bs)]
    /\ publishedLog' = [publishedLog EXCEPT !["mock"] =
           Append(@, [msg |-> Raw(bs), subscribed |-> endpoints["mock"].subscriber])]
    /\ UNCHANGED <<endpoints, queue, deliveries>>
    /\ UNCHANGED notPubSub

NextSubscribe ==
    \/ NextPubSub
    \/ \E bs \in ForeignBytes : Foreign_put(bs)
    \/ \E bs \in ForeignBytes : Foreign_publish(bs)

SpecSubscribe == Init /\ [][NextSubscribe]_vars

(***************************************************************************)
(* Request / response over the in-memory adapter (transport/mock.rs): one  *)
(* service name, a handler stored as a function from bytes to bytes, and   *)
(* a client that calls it in place. The request type is AddRequest; the    *)
(* response type is AddResponse with the hand-written codec of the tests   *)
(* (4 bytes) or a prost-generated message with one int32 field (protocol   *)
(* buffers: a field that has its default value is not written).            *)
(***************************************************************************)
ResTypes == {"AddResponse", "Sum"}

\* prost's encoding of message Sum { int32 sum = 1; } for -128 <= sum < 128
Sum_encode(m) ==
    IF m.sum = 0 THEN <<>>
    ELSE IF m.sum > 0 THEN <<8, m.sum>>
    ELSE <<8, 256 + m.sum, 255, 255, 255, 255, 255, 255, 255, 255, 1>>

Sum_decode(bs) ==
    IF bs = <<>> THEN [ok |-> TRUE, msg |-> [sum |-> 0]]
    ELSE IF Len(bs) = 2 /\ bs[1] = 8 /\ bs[2] < 128 THEN [ok |-> TRUE, msg |-> [sum |-> bs[2]]]
    ELSE IF Len(bs) = 11 /\ bs[1] = 8 /\ bs[2] >= 128
      THEN [ok |-> TRUE, msg |-> [sum |-> bs[2] - 256]]
    ELSE [ok |-> FALSE]

Res_encode(T, m) == IF T = "Sum" THEN Sum_encode(m) ELSE AddResponse_encode(m)
Res_decode(T, bs) == IF T = "Sum" THEN Sum_decode(bs) ELSE AddResponse_decode(bs)

\* the requests of the clients: AddRequest values, and a request of another
\* type whose encoding does not decode as AddRequest
MockRequests ==
    {[a |-> 1, b |-> 2], [a |-> 0, b |-> 0], [a |-> -1, b |-> 1], [raw |-> <<1, 2, 3>>]}

Req_encode(req) == IF "raw" \in DOMAIN req THEN req.raw ELSE AddRequest_encode(req)

\* the closure create_service stores: bytes in, bytes out, empty on an error
handler_wrapper(svc, request_bytes) ==
    LET d == AddRequest_decode(request_bytes) IN
        IF d.ok
          THEN LET r == Handle(svc.h, d.msg) IN
                   IF r.ok THEN Res_encode(svc.res, r.res) ELSE <<>>
          ELSE <<>>

\* MockClient::call
MockClient_call_result(svc, req) ==
    IF svc = NoService
      THEN Err(service_call_failed(<<"Service not found", "add">>))
      ELSE LET response_bytes == handler_wrapper(svc, Req_encode(req)) IN
               IF response_bytes = <<>>
                 THEN Err(service_call_failed(<<"add">>))
                 ELSE LET d == Res_decode(svc.res, response_bytes) IN
                          IF d.ok THEN Ok(d.msg) ELSE Err(DecodingError)

\* MockClient::call_async: the result of self.call(request) in a ready future
MockClient_call_async_result(svc, req) == MockClient_call_result(svc, req)

\* MockTransport::create_service: the handler is stored under the name
MockTransport_create_service(h, T) ==
    /\ mockRpc.service # [h |-> h, res |-> T]
    /\ mockRpc' = [mockRpc EXCEPT !.service = [h |-> h, res |-> T]]
    /\ UNCHANGED <<nodeVars, callVars, pubsubVars, storeVars, objectVars, handles, guardVars,
                   dispatchVars, dropped, declared, duration, later, lockVars, runtime>>

MockClient_call(v, req) ==
    /\ mockRpc' = [mockRpc EXCEPT !.last[v] =
           [made |-> TRUE, service |-> mockRpc.service, req |-> req,
            result |-> IF v = "call" THEN MockClient_call_result(mockRpc.service, req)
                       ELSE MockClient_call_async_result(mockRpc.service, req)]]
    /\ UNCHANGED <<nodeVars, callVars, pubsubVars, storeVars, objectVars, handles, guardVars,
                   dispatchVars, dropped, declared, duration, later, lockVars, runtime>>

NextMockRpc ==
    \/ \E h \in Handlers, T \in ResTypes : MockTransport_create_service(h, T)
    \/ \E v \in Variants, req \in MockRequests : MockClient_call(v, req)

SpecMockRpc == Init /\ [][NextMockRpc]_vars

(***************************************************************************)
(* Claims about publish / subscribe, checked under SpecPubSub.             *)
(***************************************************************************)
\* the payload of publish call i on adapter a is still on its way
InFlight(a, i) == a = "zenoh" /\ \E k \in 1..Len(queue) : queue[k].id = i

\* the callback invocations publish call i on adapter a has caused
Invocations(a, i) == {k \in 1..Len(deliveries[a]) : deliveries[a][k].id = i}

DeliveredExactlyOnce(a) ==
    \A i \in 1..Len(publishedLog[a]) :
        publishedLog[a][i].subscribed =>
            IF InFlight(a, i) THEN Invocations(a, i) = {}
            ELSE /\ Cardinality(Invocations(a, i)) = 1
                 /\ \A k \in Invocations(a, i) :
                        deliveries[a][k].msg = publishedLog[a][i].msg

\* C11: a message published on the topic after the subscriber was
\* registered reaches the subscriber's callback exactly once, with an equal
\* value: once its payload is no longer in flight the callback has run once
\* for it, and never before or twice.  Stated for both adapters.
C11_DeliveredExactlyOnce == \A a \in Adapters : DeliveredExactlyOnce(a)

\* the same, for the live adapter alone
LiveAdapterDeliversOnce == DeliveredExactlyOnce("zenoh")

(***************************************************************************)
(* The parameter store of a Node, used by one caller at a time: the calls  *)
(* run under the parameters lock from start to end (node.rs:343, 356).     *)
(***************************************************************************)
StoreNames == {"p", "q"}
StoreValues ==
    {[type |-> "string", v |-> <<"h", "i">>],
     [type |-> "string", v |-> <<"a", "\"", "b">>],
     [type |-> "i32", v |-> 42],
     [type |-> "i32", v |-> -7],
     [type |-> "i32", v |-> 300],
     [type |-> "f64", v |-> [neg |-> FALSE, whole |-> 3, frac |-> <<1, 4>>]],
     [type |-> "bool", v |-> TRUE],
     [type |-> "vec_i32", v |-> <<1, 2, 3>>],
     [type |-> "map", v |-> <<>>]}

NextParam ==
    \/ \E n \in StoreNames, v \in StoreValues : set_parameter(n, v)
    \/ \E n \in StoreNames, T \in ParamTypes : get_parameter(n, T)

SpecParam == Init /\ [][NextParam]_vars

(***************************************************************************)
(* Claims about the parameter store, checked under SpecParam.              *)
(***************************************************************************)
ParameterNotFound == [ok |-> FALSE, err |-> Error_parameter("Parameter not found")]

\* the last call was get_parameter::<T>(n) and it returned res
GotFrom(n, T) == returned.op = "get" /\ returned.name = n /\ returned.arg = T

\* C12: after set_parameter(n, v) succeeded and with no later set on n,
\* get_parameter of v's type on n returns a value equal to v, for strings,
\* integers, floats, booleans and arrays.
C12_GetReturnsWhatWasSet ==
    \A n \in DOMAIN lastSet :
        GotFrom(n, lastSet[n].type) => returned.res = [ok |-> TRUE, val |-> lastSet[n]]

C12_Witness ==
    /\ DOMAIN lastSet = StoreNames
    /\ lastSet["p"].type = "f64"
    /\ lastSet["q"].type = "vec_i32"
    /\ GotFrom("q", "vec_i32")
    /\ returned.res = [ok |-> TRUE, val |-> [type |-> "vec_i32", v |-> <<1, 2, 3>>]]

\* C13: get_parameter on a name that no set has created fails with the
\* parameter-not-found error, and the call leaves the parameter map as it
\* was.
C13_MissingNameNotFound ==
    [][(returned'.op = "get" /\ ~contains_key(lastSet', returned'.name)) =>
           /\ returned'.res = ParameterNotFound
           /\ parameters' = parameters]_vars

C13_Witness ==
    /\ GotFrom("q", "i32")
    /\ returned.res = ParameterNotFound
    /\ DOMAIN parameters = {"p"}

\* C14: a set on n creates the parameter or replaces it, whatever the type
\* of the value it had; it changes no other parameter; no call removes a
\* parameter; a get of n returns the value of the last set that succeeded.
C14_LastSetWins ==
    [][/\ (returned'.op = "set" /\ returned'.res.ok) =>
              /\ DOMAIN parameters' = DOMAIN parameters \cup {returned'.name}
              /\ parameters'[returned'.name].value = returned'.arg
              /\ \A m \in DOMAIN parameters \ {returned'.name} :
                     parameters'[m] = parameters[m]
       /\ DOMAIN parameters \subseteq DOMAIN parameters'
       /\ \A n \in DOMAIN parameters' :
              (returned'.op = "get" /\ returned'.name = n
                   /\ returned'.arg = parameters'[n].value.type) =>
                  returned'.res = [ok |-> TRUE, val |-> lastSet'[n]]]_vars

C14_Witness ==
    /\ DOMAIN parameters = StoreNames
    /\ parameters["p"].value = [type |-> "string", v |-> <<"h", "i">>]
    /\ parameters["q"].value = [type |-> "i32", v |-> 300]
    /\ GotFrom("p", "string")
    /\ returned.res = [ok |-> TRUE, val |-> lastSet["p"]]

\* C17: get_parameter::<T> returns a copy of the stored value when T is its
\* type; otherwise it returns the canonical form read as T when that form
\* is a T (an i32 read as i64), and a parameter error when it is not (an
\* integer read as a string); the call never changes the parameter.
C17_TypedGet ==
    [][\A n \in DOMAIN lastSet', T \in ParamTypes :
           (returned'.op = "get" /\ returned'.name = n /\ returned'.arg = T) =>
               LET stored == lastSet'[n]
                   canonical == Json(stored)
                   read == from_str(T, canonical)
               IN  /\ T = stored.type => returned'.res = [ok |-> TRUE, val |-> stored]
                   /\ (T # stored.type /\ read.ok) =>
                          /\ returned'.res = [ok |-> TRUE, val |-> read.val]
                          /\ returned'.res.val.type = T
                   /\ (T # stored.type /\ ~read.ok) =>
                          /\ ~returned'.res.ok
                          /\ returned'.res.err.kind = "Parameter"
                   /\ (stored = [type |-> "i32", v |-> 42] /\ T = "i64") =>
                          returned'.res = [ok |-> TRUE, val |-> [type |-> "i64", v |-> 42]]
                   /\ (stored.type = "i32" /\ T = "string") => ~returned'.res.ok
                   /\ parameters' = parameters]_vars

C17_Witness ==
    /\ "p" \in DOMAIN lastSet
    /\ lastSet["p"] = [type |-> "i32", v |-> 300]
    /\ GotFrom("p", "u8")
    /\ ~returned.res.ok
    /\ returned.res.err.kind = "Parameter"

(***************************************************************************)
(* One Parameter shared by threads (parameter.rs).  set_value and          *)
(* get_value take &self; value and serialized each sit behind their own    *)
(* mutex, so a call is a sequence of steps, one per lock acquisition.      *)
(* The Node's own calls are part of the specification: they run under the  *)
(* parameters lock and never reach set_value.                              *)
(***************************************************************************)
ObjectValues ==
    {[type |-> "i32", v |-> 42],
     [type |-> "string", v |-> <<"h", "i">>],
     [type |-> "map", v |-> <<>>]}
ObjectTypes == {"i32", "string"}

\* set_value: serde_json::to_string(&value)? (parameter.rs:70-72)
set_value_serialize(t, v) ==
    /\ th[t].pc = "idle"
    /\ LET serialized == to_string(v) IN
       th' = [th EXCEPT ![t] =
                IF serialized.ok
                THEN [pc |-> "store_value", op |-> "set_value", arg |-> v,
                      serialized |-> serialized.s]
                ELSE [pc |-> "idle", op |-> "set_value", arg |-> v,
                      res |-> [ok |-> FALSE,
                               err |-> Error_parameter("Failed to serialize parameter")]]]
    /\ UNCHANGED <<param, valueLock>>
    /\ UNCHANGED notObject

\* set_value: *self.value.lock().unwrap() = Box::new(value) (parameter.rs:74)
set_value_store_value(t) ==
    /\ th[t].pc = "store_value"
    /\ valueLock = NoThread
    /\ param' = [param EXCEPT !.value = th[t].arg]
    /\ th' = [th EXCEPT ![t].pc = "store_serialized"]
    /\ UNCHANGED valueLock
    /\ UNCHANGED notObject

\* set_value: *self.serialized.lock().unwrap() = serialized; Ok(())
\* (parameter.rs:75-77)
set_value_store_serialized(t) ==
    /\ th[t].pc = "store_serialized"
    /\ param' = [param EXCEPT !.serialized = th[t].serialized]
    /\ th' = [th EXCEPT ![t] = [pc |-> "idle", op |-> "set_value", arg |-> th[t].arg,
                                res |-> [ok |-> TRUE]]]
    /\ UNCHANGED valueLock
    /\ UNCHANGED notObject

\* get_value: lock value and try the downcast (parameter.rs:46-51)
get_value_downcast(t, T) ==
    /\ th[t].pc = "idle"
    /\ valueLock = NoThread
    /\ IF downcast_ref(param.value, T)
       THEN /\ th' = [th EXCEPT ![t] = [pc |-> "idle", op |-> "get_value", arg |-> T,
                                        res |-> [ok |-> TRUE, val |-> param.value]]]
            /\ UNCHANGED valueLock
       ELSE /\ th' = [th EXCEPT ![t] = [pc |-> "deserialize", op |-> "get_value",
                                        arg |-> T]]
            /\ valueLock' = t
    /\ UNCHANGED param
    /\ UNCHANGED notObject

\* get_value: lock serialized and read it as T, the value still locked
\* (parameter.rs:54-62); seen is the pair the call has looked at
get_value_deserialize(t) ==
    /\ th[t].pc = "deserialize"
    /\ LET deserialized == from_str(th[t].arg, param.serialized) IN
       th' = [th EXCEPT ![t] =
                [pc |-> "idle", op |-> "get_value", arg |-> th[t].arg,
                 seen |-> [value |-> param.value, serialized |-> param.serialized],
                 res |-> IF deserialized.ok THEN [ok |-> TRUE, val |-> deserialized.val]
                         ELSE [ok |-> FALSE,
                               err |-> Error_parameter("Failed to deserialize parameter")]]]
    /\ valueLock' = NoThread
    /\ UNCHANGED param
    /\ UNCHANGED notObject

NextParameter ==
    \/ \E t \in Threads, v \in ObjectValues : set_value_serialize(t, v)
    \/ \E t \in Threads : set_value_store_value(t)
    \/ \E t \in Threads : set_value_store_serialized(t)
    \/ \E t \in Threads, T \in ObjectTypes : get_value_downcast(t, T)
    \/ \E t \in Threads : get_value_deserialize(t)
    \/ \E n \in ParamNames, v \in ObjectValues : set_parameter(n, v)
    \/ \E n \in ParamNames, T \in ObjectTypes : get_parameter(n, T)

SpecParameter == Init /\ [][NextParameter]_vars

(***************************************************************************)
(* Claims about a shared Parameter, checked under SpecParameter.           *)
(***************************************************************************)
SerializeError == [ok |-> FALSE, err |-> Error_parameter("Failed to serialize parameter")]

\* serde_json cannot write v: a map whose keys are tuples
Unserializable(v) == v.type = "map"

\* thread t has just left set_value with an error
SetValueFails(t) == th'[t] # th[t] /\ th'[t].op = "set_value" /\ th'[t].pc = "idle"
                        /\ ~th'[t].res.ok

\* C15: a set whose value cannot be serialized returns a parameter error
\* and mutates nothing: Node::set_parameter leaves the map as it was, and
\* Parameter::set_value leaves the value and the serialized form as they
\* were.
C15_FailedSetMutatesNothing ==
    [][/\ (returned'.op = "set" /\ Unserializable(returned'.arg)) =>
              /\ returned'.res = SerializeError
              /\ parameters' = parameters
       /\ \A t \in Threads :
              (th'[t] # th[t] /\ th'[t].op = "set_value"
                   /\ Unserializable(th'[t].arg)) =>
                  /\ SetValueFails(t)
                  /\ th'[t].res = SerializeError
                  /\ param' = param]_vars

C15_Witness ==
    /\ returned.op = "set" /\ returned.res = SerializeError
    /\ contains_key(parameters, "p")
    /\ \E t \in Threads :
           /\ th[t].op = "set_value" /\ th[t].pc = "idle" /\ th[t].res = SerializeError
           /\ param.value = [type |-> "string", v |-> <<"h", "i">>]
           /\ param.serialized = Json(param.value)

\* no set_value call is between its start and its return
NoSetInProgress == \A t \in Threads : th[t].pc \notin {"store_value", "store_serialized"}

\* C16: a set replaces the stored value and the serialized form as one
\* step: the pair a get has looked at is a value together with its own
\* serialized form, and once no set is in progress the serialized form is
\* the serialization of the stored value.  Stated for the parameters of
\* the Node's map and for a Parameter shared by threads.
\* the pair every finished get has looked at is a value with its own form
GetSeesOwnPair ==
    \A t \in Threads :
        "seen" \in DOMAIN th[t] => th[t].seen.serialized = Json(th[t].seen.value)

\* with no set in progress the shared Parameter's form is that of its value
SettledPairMatches == NoSetInProgress => param.serialized = Json(param.value)

\* the same for the parameters in the Node's map, which only
\* Node::set_parameter writes
StorePairsMatch ==
    \A n \in DOMAIN parameters : parameters[n].serialized = Json(parameters[n].value)

C16_SetIsAtomic == StorePairsMatch /\ GetSeesOwnPair /\ SettledPairMatches

(***************************************************************************)
(* DropGuard (node.rs:18-39): guards created and dropped by independent    *)
(* owners.  drop takes the cleanup out of the guard, leaving a closure     *)
(* that does nothing, and then calls what it took.                         *)
(***************************************************************************)
\* the closures given to DropGuard::new: the one of test_drop_guard, which
\* sets a flag, and the one of the resource handles, which is empty
Closures == {"flag", "empty"}

DropGuard_new(g, cleanup) ==
    /\ guards[g].state = "none"
    /\ guards' = [guards EXCEPT ![g] =
                     [state |-> "alive", given |-> cleanup, cleanup |-> cleanup]]
    /\ UNCHANGED invoked
    /\ UNCHANGED notGuards

\* a drop that throws away the cleanup it takes out
drop_replace_discards(g) ==
    /\ guards[g].state = "alive"
    /\ guards' = [guards EXCEPT ![g] =
                     [state |-> "dropping", given |-> guards[g].given,
                      cleanup |-> "noop", taken |-> "noop"]]
    /\ UNCHANGED invoked
    /\ UNCHANGED notGuards

\* drop: let cleanup = std::mem::replace(&mut self.cleanup, Box::new(|| {}))
drop_replace(g) ==
    /\ guards[g].state = "alive"
    /\ guards' = [guards EXCEPT ![g] =
                     [state |-> "dropping", given |-> guards[g].given,
                      cleanup |-> "noop", taken |-> guards[g].cleanup]]
    /\ UNCHANGED invoked
    /\ UNCHANGED notGuards

\* drop: cleanup()
drop_call(g) ==
    /\ guards[g].state = "dropping"
    /\ invoked' = [invoked EXCEPT ![g] = IF guards[g].taken = guards[g].given THEN @ + 1 ELSE @]
    /\ guards' = [guards EXCEPT ![g] =
                     [state |-> "dropped", given |-> guards[g].given, cleanup |-> "noop"]]
    /\ UNCHANGED notGuards

NextGuard ==
    \/ \E g \in GuardIds, c \in Closures : DropGuard_new(g, c)
    \/ \E g \in GuardIds : drop_replace(g)
    \/ \E g \in GuardIds : drop_call(g)

SpecGuard == Init /\ [][NextGuard]_vars

(***************************************************************************)
(* Claims about DropGuard, checked under SpecGuard.                        *)
(***************************************************************************)
\* C18: the cleanup of a DropGuard is not invoked while the guard is
\* alive, has been invoked exactly once when the guard has been dropped,
\* whatever other guards are being created or dropped meanwhile, and is
\* never invoked twice.
C18_CleanupExactlyOnce ==
    \A g \in GuardIds :
        /\ guards[g].state \in {"none", "alive", "dropping"} => invoked[g] = 0
        /\ guards[g].state = "dropped" => invoked[g] = 1
        /\ invoked[g] <= 1

C18_Witness ==
    /\ guards[1].state = "dropped" /\ guards[1].given = "flag" /\ invoked[1] = 1
    /\ guards[2].state = "dropping" /\ invoked[2] = 0
    /\ guards[3].state = "alive" /\ invoked[3] = 0

(***************************************************************************)
(* Resource handles (node.rs:41-155) built by the builders                 *)
(* (node.rs:470-474, 526-534, 554-560, 580-583): build() runs the Node's   *)
(* create call and wraps the Arc it returns, together with a DropGuard     *)
(* whose closure is empty.                                                 *)
(***************************************************************************)
\* the callers that use the builders
Builders == {1}

\* PublisherHandle::new and its three siblings
Handle_new(kind, name, resource) ==
    [kind |-> kind, name |-> name, resource |-> resource, cleanup |-> "empty"]

\* build(): the create call has returned; Ok is wrapped, an error is passed on
Builder_build(t) ==
    /\ pc[t] = "done"
    /\ handles' = IF result[t] = "Ok"
                  THEN handles \cup {Handle_new(op[t].kind, op[t].name, held[t])}
                  ELSE handles
    /\ pc' = [pc EXCEPT ![t] = "idle"]
    /\ op' = [op EXCEPT ![t] = NoOp]
    /\ held' = [held EXCEPT ![t] = NoObj]
    /\ result' = [result EXCEPT ![t] = "none"]
    /\ UNCHANGED <<publishers, subscribers, services, clients, parameters, objs>>
    /\ UNCHANGED <<callVars, pubsubVars, storeVars, objectVars, guardVars, dispatchVars, moreVars>>

\* the handle goes out of scope: its Arc is dropped, then its DropGuard,
\* which runs the empty closure; the Node's maps are not reached
Handle_drop(k, n) ==
    /\ \E h \in handles :
           /\ h.kind = k /\ h.name = n
           /\ handles' = handles \ {h}
    /\ UNCHANGED nodeVars
    /\ UNCHANGED <<callVars, pubsubVars, storeVars, objectVars, guardVars, dispatchVars, moreVars>>

NextHandle ==
    \/ \E t \in Builders, k \in AsyncKinds, n \in Names : create_check(t, k, n)
    \/ \E t \in Builders : create_transport(t)
    \/ \E t \in Builders : create_store(t)
    \/ \E t \in Builders, n \in Names : create_client(t, n)
    \/ \E t \in Builders : Builder_build(t)
    \/ \E k \in Kinds, n \in Names : Handle_drop(k, n)

SpecHandle == Init /\ [][NextHandle]_vars

(***************************************************************************)
(* Claims about resource handles, checked under SpecHandle.                *)
(***************************************************************************)
\* C19: when a PublisherHandle, SubscriberHandle, ServiceHandle or
\* ClientHandle is released, the transport object it wraps is released with
\* it: no Arc to the object is left, in the Node's maps or elsewhere, and
\* the Node holds no resource under the handle's (kind, name).
C19_ReleaseFreesResource ==
    [][\A h \in handles \ handles' :
           LET registry == CASE h.kind = "publisher" -> publishers'
                             [] h.kind = "subscriber" -> subscribers'
                             [] h.kind = "service" -> services'
                             [] h.kind = "client" -> clients'
           IN  /\ ~contains_key(registry, h.name)
               /\ \A t \in Callers : held'[t] # h.resource
               /\ \A other \in handles' : other.resource # h.resource]_vars

(***************************************************************************)
(* The service dispatcher as a task (zenoh.rs:214-255): it receives one    *)
(* query at a time, computes the reply without suspending and suspends     *)
(* once, on the reply it sends, before it receives the next query.         *)
(***************************************************************************)
\* a query's payload: none, bytes that are not an AddRequest, an AddRequest
QueryPayloads ==
    {<<>>, <<(<<7, 0, 0, 0>>)>>} \cup {<<AddRequest_encode(r)>> : r \in Requests}

\* decode_message::<Req> of the payload is Ok
Decodes(payload) == payload # <<>> /\ AddRequest_decode(payload[1]).ok

\* ZenohService::new: the queryable is declared and the task spawned
ZenohService_new(h) ==
    /\ handler = "none"
    /\ handler' = h
    /\ UNCHANGED dispatchVars
    /\ UNCHANGED notDispatch

\* a client's query reaches the queryable
query_arrives(payload) ==
    /\ handler # "none"
    /\ Len(queries) < MaxQueries
    /\ queries' = Append(queries, payload)
    /\ inbox' = Append(inbox, Len(queries) + 1)
    /\ UNCHANGED <<serving, replies, handled, handler>>
    /\ UNCHANGED notDispatch

\* a dispatcher that goes on to the next query when one has no payload
dispatcher_recv_skips_empty ==
    /\ serving = NoQuery
    /\ inbox # <<>>
    /\ LET q == Head(inbox)
           payload == queries[q]
       IN  /\ handled' = [handled EXCEPT ![q] = IF Decodes(payload) THEN @ + 1 ELSE @]
           /\ serving' = IF payload = <<>> THEN NoQuery
                         ELSE IF Decodes(payload) THEN [id |-> q, pc |-> "handler"]
                         ELSE [id |-> q, pc |-> "reply", reply |-> Dispatch(payload, handler)]
    /\ inbox' = Tail(inbox)
    /\ UNCHANGED <<queries, replies, handler>>
    /\ UNCHANGED notDispatch

\* queryable.recv_async().await returns a query; the loop body runs up to
\* the reply it awaits, or up to the call of the handler, which runs inside
\* the task (zenoh.rs:216-222)
dispatcher_recv ==
    /\ serving = NoQuery
    /\ inbox # <<>>
    /\ LET q == Head(inbox)
           payload == queries[q]
       IN  /\ handled' = [handled EXCEPT ![q] = IF Decodes(payload) THEN @ + 1 ELSE @]
           /\ serving' = IF Decodes(payload) THEN [id |-> q, pc |-> "handler"]
                         ELSE [id |-> q, pc |-> "reply", reply |-> Dispatch(payload, handler)]
    /\ inbox' = Tail(inbox)
    /\ UNCHANGED <<queries, replies, handler>>
    /\ UNCHANGED notDispatch

\* handler(request) returns to the task, which goes on to the reply it awaits
\* (zenoh.rs:222-238)
handler_returns ==
    /\ serving.id # 0
    /\ serving.pc = "handler"
    /\ serving' = [id |-> serving.id, pc |-> "reply",
                   reply |-> Dispatch(queries[serving.id], handler)]
    /\ UNCHANGED <<queries, inbox, replies, handled, handler>>
    /\ UNCHANGED notDispatch

\* query.reply(..).await / query.reply_err(..).await returns
dispatcher_reply ==
    /\ serving.id # 0
    /\ serving.pc = "reply"
    /\ replies' = [replies EXCEPT ![serving.id] = Append(@, serving.reply)]
    /\ serving' = NoQuery
    /\ UNCHANGED <<queries, inbox, handled, handler>>
    /\ UNCHANGED notDispatch

NextDispatch ==
    \/ \E h \in Handlers : ZenohService_new(h)
    \/ \E payload \in QueryPayloads : query_arrives(payload)
    \/ dispatcher_recv
    \/ handler_returns
    \/ dispatcher_reply

SpecDispatch == Init /\ [][NextDispatch]_vars

\* the task is scheduled whenever it can run; a handler may take arbitrarily
\* long, so nothing is assumed about when it returns
SpecDispatchSlowHandler ==
    SpecDispatch /\ WF_vars(dispatcher_recv) /\ WF_vars(dispatcher_reply)

(***************************************************************************)
(* Claims about the service dispatcher, checked under SpecDispatch.        *)
(***************************************************************************)
\* query q has been received and the dispatcher has gone past it
Served(q) == q <= Len(queries) /\ serving.id # q /\ \A i \in 1..Len(inbox) : inbox[i] # q

\* C20: the dispatcher makes exactly one reply to every query it receives
\* and goes past none without one: a negative reply when the query has no
\* payload or the payload does not decode, a negative reply carrying the
\* error when the handler fails, a positive reply with the encoded result
\* when the handler succeeds; the handler runs at most once per query and
\* only for a payload that decoded.
C20_OneReplyPerQuery ==
    \A q \in QueryIds :
        /\ Len(replies[q]) <= 1
        /\ handled[q] <= 1
        /\ Served(q) =>
               LET payload == queries[q]
                   reply == replies[q][1]
               IN  /\ Len(replies[q]) = 1
                   /\ handled[q] = (IF Decodes(payload) THEN 1 ELSE 0)
                   /\ payload = <<>> =>
                          reply = [ok |-> FALSE, err |-> "Query has no payload"]
                   /\ (payload # <<>> /\ ~Decodes(payload)) =>
                          reply = [ok |-> FALSE, err |-> "Failed to decode request"]
                   /\ Decodes(payload) =>
                          LET r == Handle(handler, AddRequest_decode(payload[1]).msg) IN
                          IF r.ok THEN reply = [ok |-> TRUE, bytes |-> AddResponse_encode(r.res)]
                          ELSE ~reply.ok /\ reply.err = <<"Service error", r.err>>

C20_Witness ==
    /\ handler = "add_nonneg"
    /\ Served(1) /\ Served(2)
    /\ queries[1] = <<>>
    /\ replies[1] = <<[ok |-> FALSE, err |-> "Query has no payload"]>>
    /\ queries[2] = <<AddRequest_encode([a |-> -1, b |-> 2])>>
    /\ handled = <<0, 1>>
    /\ ~replies[2][1].ok

\* the handler is running for query q
HandlerRunning(q) == serving.id = q /\ serving.pc = "handler"

\* query q waits in the queryable for the task to receive it
Waiting(q) == \E i \in 1..Len(inbox) : inbox[i] = q

\* C21: a query that arrives while the handler is running for another query
\* is answered without the handler having to return first: a query whose
\* reply needs no handler (no payload, undecodable payload) gets its reply
\* however long the running handler takes.
C21_SlowHandlerDoesNotBlock ==
    \A q1, q2 \in QueryIds :
        (HandlerRunning(q1) /\ Waiting(q2) /\ ~Decodes(queries[q2]))
            ~> (Len(replies[q2]) = 1)

\* the task does nothing else while the handler runs: queries only queue up
DispatcherIsSequential ==
    [][\A q \in QueryIds :
          HandlerRunning(q) =>
              /\ replies' = replies /\ handled' = handled
              /\ \/ inbox' = inbox
                 \/ inbox' = Append(inbox, Len(queries) + 1)]_vars

(***************************************************************************)
(* Claims about the cancellation of call_async, checked under SpecCancel.  *)
(***************************************************************************)
\* a backoff sleep of call v is scheduled
SleepScheduled(v) == calls[v].pc = "sleep"

\* C22: call_async can be cancelled at each of its suspension points (the
\* get, the reply, the backoff sleep), and once its future has been dropped
\* the call issues no further query and none of its backoff sleeps is
\* scheduled.
C22_CancelStopsCall ==
    [][/\ \A p \in SuspensionPoints :
              calls["call_async"].pc = p => ENABLED call_async_drop
       /\ dropped'["call_async"] # "no" =>
              /\ ~SleepScheduled("call_async")'
              /\ calls'["call_async"].pc \notin SuspensionPoints
              /\ dropped["call_async"] # "no" =>
                     /\ calls'["call_async"].queries = calls["call_async"].queries
                     /\ calls'["call_async"].sent = calls["call_async"].sent]_vars

\* C22 witness: the future was dropped during the first backoff sleep, after
\* one query, while the blocking call went on to its third query.
C22_Witness ==
    /\ dropped["call_async"] = "sleep"
    /\ calls["call_async"].queries = 1
    /\ calls["call"].queries = 3

(***************************************************************************)
(* Key expressions of the live adapter. A name and a key are sequences of  *)
(* the segments between "/"; format!("{prefix}{name}") puts the segments   *)
(* of the prefix before those of the name.                                 *)
(***************************************************************************)
TOPIC_PREFIX == <<"zenobuf", "topic">>
SERVICE_PREFIX == <<"zenobuf", "service">>

KeyNames == {<<"a">>, <<"zenobuf", "topic", "a">>, <<"zenobuf", "service", "a">>}
Paths == {"inherent", "trait"}
MaxEndpoints == 3

TopicKinds == {"publisher", "subscriber"}

\* the family prefix of a kind
Prefix(k) == IF k \in TopicKinds THEN TOPIC_PREFIX ELSE SERVICE_PREFIX

\* ZenohTransport::create_publisher / create_subscriber / create_service /
\* create_client: the key handed to ZenohPublisher::new and its siblings
ZenohTransport_key(k, name) == Prefix(k) \o name

\* <ZenohTransport as Transport>::create_*: the key handed to
\* ZenohPublisher::new and its siblings
Transport_key(k, name) == name

ZenohTransport_create(k, name) ==
    /\ Cardinality(declared) < MaxEndpoints
    /\ declared' = declared \cup
           {[path |-> "inherent", kind |-> k, name |-> name, key |-> ZenohTransport_key(k, name)]}
    /\ UNCHANGED <<nodeVars, callVars, pubsubVars, storeVars, objectVars, handles, guardVars,
                   dispatchVars, dropped, duration, later, lockVars, restVars>>

Transport_create(k, name) ==
    /\ Cardinality(declared) < MaxEndpoints
    /\ declared' = declared \cup
           {[path |-> "trait", kind |-> k, name |-> name, key |-> Transport_key(k, name)]}
    /\ UNCHANGED <<nodeVars, callVars, pubsubVars, storeVars, objectVars, handles, guardVars,
                   dispatchVars, dropped, duration, later, lockVars, restVars>>

NextKeys ==
    \/ \E k \in Kinds, name \in KeyNames : ZenohTransport_create(k, name)
    \/ \E k \in Kinds, name \in KeyNames : Transport_create(k, name)

SpecKeys == Init /\ [][NextKeys]_vars

\* the family of a kind: topics or services
Family(k) == IF k \in TopicKinds THEN "topic" ELSE "service"

\* C23: on every factory path an endpoint's key is its family's prefix
\* followed by the name, so endpoints of one family and one name share their
\* key, and no topic key equals a service key.
C23_KeysArePrefixed ==
    /\ \A e \in declared : e.key = Prefix(e.kind) \o e.name
    /\ \A e1, e2 \in declared :
           /\ (Family(e1.kind) = Family(e2.kind) /\ e1.name = e2.name) => e1.key = e2.key
           /\ Family(e1.kind) # Family(e2.kind) => e1.key # e2.key

\* on the path the Node uses (the inherent methods) the claim holds
InherentKeysArePrefixed ==
    LET inherent == {e \in declared : e.path = "inherent"} IN
        /\ \A e \in inherent : e.key = Prefix(e.kind) \o e.name
        /\ \A e1, e2 \in inherent :
               /\ (Family(e1.kind) = Family(e2.kind) /\ e1.name = e2.name) => e1.key = e2.key
               /\ Family(e1.kind) # Family(e2.kind) => e1.key # e2.key

(***************************************************************************)
(* ZenobufDuration (time.rs): sec and nsec are i32. The arithmetic of      *)
(* normalize is i32 arithmetic: an operation gives its two's complement    *)
(* result v and whether it overflowed (of). With overflow checks (a debug  *)
(* build) an overflow panics, without them (a release build) it wraps.     *)
(***************************************************************************)
MAX_I32 == 2147483647
MIN_I32 == (-MAX_I32) - 1
NANOS == 1000000000

\* a + b in i32
add_i32(a, b) ==
    IF b >= 0
      THEN IF a <= MAX_I32 - b
             THEN [v |-> a + b, of |-> FALSE]
             ELSE [v |-> ((a - MAX_I32) - 1) + ((b - MAX_I32) - 1), of |-> TRUE]
      ELSE IF a >= MIN_I32 - b
             THEN [v |-> a + b, of |-> FALSE]
             ELSE [v |-> ((a + MAX_I32) + 1) + ((b + MAX_I32) + 1), of |-> TRUE]

\* -a in i32
neg_i32(a) == IF a = MIN_I32 THEN [v |-> MIN_I32, of |-> TRUE] ELSE [v |-> -a, of |-> FALSE]

\* a - b in i32
sub_i32(a, b) ==
    IF b = MIN_I32
      THEN [v |-> add_i32(a, MIN_I32).v, of |-> a >= 0]
      ELSE add_i32(a, -b)

\* a / b in i32 for b > 0: the quotient rounded towards zero
div_i32(a, b) ==
    IF a >= 0
      THEN a \div b
      ELSE LET m == -(a + 1) IN -((m \div b) + (IF m % b = b - 1 THEN 1 ELSE 0))

\* a % b in i32 for b > 0: the remainder has the sign of a
rem_i32(a, b) == a - div_i32(a, b) * b

\* a * b in i32 for a small a, by repeated addition
RECURSIVE mul_i32(_, _)
mul_i32(a, b) ==
    IF a = 0 THEN [v |-> 0, of |-> FALSE]
    ELSE IF a < 0
      THEN LET r == mul_i32(a + 1, b)
               d == sub_i32(r.v, b) IN [v |-> d.v, of |-> r.of \/ d.of]
      ELSE LET r == mul_i32(a - 1, b)
               d == add_i32(r.v, b) IN [v |-> d.v, of |-> r.of \/ d.of]

\* ZenobufDuration::normalize
normalize(d) ==
    IF d.nsec >= NANOS
      THEN LET sec == add_i32(d.sec, div_i32(d.nsec, NANOS)) IN
           [sec |-> sec.v, nsec |-> rem_i32(d.nsec, NANOS), of |-> sec.of]
    ELSE IF d.nsec < 0
      THEN LET neg == neg_i32(d.nsec)
               sec_adj == add_i32(div_i32(neg.v, NANOS), 1)
               sec == sub_i32(d.sec, sec_adj.v)
               mul == mul_i32(sec_adj.v, NANOS)
               nsec == add_i32(d.nsec, mul.v) IN
           [sec |-> sec.v, nsec |-> nsec.v,
            of |-> neg.of \/ sec_adj.of \/ sec.of \/ mul.of \/ nsec.of]
    ELSE [sec |-> d.sec, nsec |-> d.nsec, of |-> FALSE]

\* ZenobufDuration::new(sec, nsec) in a build with or without overflow checks
ZenobufDuration_new_value(sec, nsec, overflow_checks) ==
    LET d == normalize([sec |-> sec, nsec |-> nsec]) IN
        IF d.of /\ overflow_checks
          THEN [tag |-> "panic"]
          ELSE [tag |-> "value", sec |-> d.sec, nsec |-> d.nsec]

Seconds == {0, 1, 1234, -1, -1234, MAX_I32, MIN_I32}
Nanoseconds ==
    {0, 1, 567890000, NANOS - 1, NANOS, NANOS + 1, 1567890000, 2 * NANOS, MAX_I32,
     -1, -500000000, 1 - NANOS, -NANOS, (-NANOS) - 1, -1567890000, -2 * NANOS,
     -MAX_I32, MIN_I32}

ZenobufDuration_new(sec, nsec, overflow_checks) ==
    /\ duration' = [op |-> "new", sec |-> sec, nsec |-> nsec,
                    overflow_checks |-> overflow_checks,
                    out |-> ZenobufDuration_new_value(sec, nsec, overflow_checks)]
    /\ UNCHANGED <<nodeVars, callVars, pubsubVars, storeVars, objectVars, handles, guardVars,
                   dispatchVars, dropped, declared, later, lockVars, restVars>>

NextTime ==
    \E sec \in Seconds, nsec \in Nanoseconds, overflow_checks \in BOOLEAN :
        ZenobufDuration_new(sec, nsec, overflow_checks)

SpecTime == Init /\ [][NextTime]_vars

\* the duration has a normalised form within i32: sec + floor(nsec / 10^9)
Representable(sec, nsec) == ~add_i32(sec, nsec \div NANOS).of

\* C24: for an input whose nsec is at least 10^9 or negative (and whose
\* normalised form fits the fields), ZenobufDuration::new returns, without
\* overflow, the duration of the same total with 0 <= nsec < 10^9.
C24_NewNormalises ==
    (/\ duration.op = "new"
     /\ (duration.nsec >= NANOS \/ duration.nsec < 0)
     /\ Representable(duration.sec, duration.nsec)) =>
        /\ duration.out.tag = "value"
        /\ duration.out.nsec >= 0 /\ duration.out.nsec < NANOS
        /\ duration.out.nsec = duration.nsec % NANOS
        /\ duration.out.sec = duration.sec + (duration.nsec \div NANOS)

\* away from the multiples of -10^9 and from nsec below -2 * 10^9 (where
\* sec_adj * 10^9 leaves i32) the claim's statement holds
NewNormalisesOrdinaryInputs ==
    (/\ duration.op = "new"
     /\ (duration.nsec >= NANOS \/ duration.nsec < 0)
     /\ duration.nsec > -2 * NANOS
     /\ duration.nsec % NANOS # 0
     /\ Representable(duration.sec, duration.nsec)
     /\ ~sub_i32(duration.sec, 2).of) =>
        /\ duration.out.tag = "value"
        /\ duration.out.nsec = duration.nsec % NANOS
        /\ duration.out.sec = duration.sec + (duration.nsec \div NANOS)

(***************************************************************************)
(* Further claims about the RPC client engine, checked under SpecCall.     *)
(***************************************************************************)
\* C25: the backoff slept after the k-th failed attempt is 100 ms * 2^k,
\* 200 ms after the first and 400 ms after the second, in call and in
\* call_async alike; no backoff follows the third.
C25_BackoffDoubles ==
    \A v \in Variants :
        LET c == calls[v] IN
            /\ c.pc = "sleep" =>
                   /\ Len(c.causes) = c.retry_count
                   /\ c.retry_count \in {1, 2}
                   /\ c.backoff = (IF c.retry_count = 1 THEN 200 ELSE 400)
            /\ Len(c.sleeps) <= 2
            /\ Len(c.sleeps) >= 1 => c.sleeps[1] = 200
            /\ Len(c.sleeps) >= 2 => c.sleeps[2] = 400

\* C25 witness: the blocking call sleeps its second backoff (400 ms) while
\* the suspending one sleeps its first (200 ms).
C25_Witness ==
    /\ calls["call"].pc = "sleep" /\ calls["call"].backoff = 400
    /\ calls["call"].sleeps = <<200>>
    /\ calls["call_async"].pc = "sleep" /\ calls["call_async"].backoff = 200

\* C26: every query of a call, the first try and each retry, carries the
\* bytes of the one encoding of the request made before the first attempt
\* and goes to the same service key.
C26_SamePayloadEveryAttempt ==
    \A v \in Variants :
        LET c == calls[v] IN
            /\ Len(c.sent) = c.queries
            /\ c.pc # "idle" => c.bytes = AddRequest_encode(request)
            /\ \A i \in 1..Len(c.sent) :
                   /\ c.sent[i].payload = AddRequest_encode(request)
                   /\ c.sent[i].key = c.sent[1].key
                   /\ c.sent[i].key = service_name

\* C26 witness: a call has sent its request {a: -1, b: 2} three times.
C26_Witness ==
    /\ request = [a |-> -1, b |-> 2]
    /\ \E v \in Variants :
           /\ Len(calls[v].sent) = 3
           /\ \A i \in 1..3 : calls[v].sent[i].payload = <<255, 255, 255, 255, 2, 0, 0, 0>>

(***************************************************************************)
(* Claims about a request that fails to encode, checked under SpecEncode.  *)
(***************************************************************************)
EncodingError == [kind |-> "Encoding"]

\* C27 (the claim as stated): when the request fails to encode, the call
\* returns an encoding error to its caller at once, with no query issued, no
\* retry made and no backoff slept.
C27_EncodeFailureReturned ==
    \A v \in Variants :
        LET c == calls[v] IN
            (c.pc # "idle" /\ ~Message_encode(request).ok) =>
                /\ c.pc = "done"
                /\ c.result = Err(EncodingError)
                /\ c.queries = 0 /\ c.retry_count = 0 /\ c.sleeps = <<>>

\* what the code does for such a request: no query, no retry, no backoff,
\* and the call does not return
EncodeFailureIssuesNothing ==
    \A v \in Variants :
        LET c == calls[v] IN
            (c.pc # "idle" /\ ~Message_encode(request).ok) =>
                /\ c.pc = "done"
                /\ c.result.tag = "Panic"
                /\ c.queries = 0 /\ c.retry_count = 0 /\ c.sleeps = <<>>

(***************************************************************************)
(* Claims about the retry policy, checked under SpecCall.                  *)
(***************************************************************************)
\* C28: whatever made an attempt fail (an error reply of the handler, a
\* reply that does not decode, a transport error, no reply), the k-th
\* failure with k < 3 is followed by the backoff 100 ms * 2^k and then by
\* the next query, and a call returns an error only after 3 failures.
C28_UniformRetry ==
    \A v \in Variants :
        LET c == calls[v]
            k == Len(c.causes) IN
            /\ c.result.tag = "Err" => k = 3
            /\ (k \in {1, 2} /\ c.result.tag = "Pending") =>
                   \/ c.pc = "sleep" /\ c.queries = k /\ c.backoff = 100 * 2^k
                   \/ c.pc \in {"get", "recv"} /\ c.queries = k + 1 /\ Len(c.sleeps) = k
            /\ (k \in {1, 2} /\ c.result.tag = "Ok") =>
                   c.queries = k + 1 /\ Len(c.sleeps) = k

\* C28 witness: a call was answered by an error reply of the handler, then
\* by a reply that does not decode, and has issued its third query.
C28_Witness ==
    /\ handler = "add_nonneg" /\ request = [a |-> -1, b |-> 2]
    /\ outcomes[1].kind = "Service"
    /\ outcomes[2] = [kind |-> "Foreign", bytes |-> <<>>]
    /\ \E v \in Variants :
           LET c == calls[v] IN
               /\ c.pc = "get" /\ c.queries = 3
               /\ c.causes[1].kind = "ServiceCallFailed"
               /\ c.causes[2] = DecodingError
               /\ c.sleeps = <<200, 400>>

(***************************************************************************)
(* Claims about the reply stream, checked under SpecStream.                *)
(***************************************************************************)
\* the first reply of attempt k's stream is a successful reply that decodes
FirstReplyGood(k) ==
    /\ outcomes[k].kind \in {"Service", "Foreign"}
    /\ LET reply == FirstReply(outcomes[k], AddRequest_encode(request), handler) IN
           reply.ok /\ AddResponse_decode(reply.bytes).ok

\* C29: an attempt is decided by the first reply of its stream alone: when
\* the first reply is good the call returns it, when it is not the attempt
\* fails, whatever replies of other repliers the stream holds besides.
C29_FirstReplyDecides ==
    \A v \in Variants :
        LET c == calls[v] IN
            /\ \A k \in 1..Len(c.causes) : ~FirstReplyGood(k)
            /\ c.result.tag = "Ok" =>
                   /\ FirstReplyGood(c.queries)
                   /\ Len(c.causes) = c.queries - 1
                   /\ c.result = Ok(AddResponse_decode(
                          FirstReply(outcomes[c.queries], AddRequest_encode(request),
                                     handler).bytes).msg)
            /\ \A k \in 1..max_retries :
                   (FirstReplyGood(k) /\ c.queries > k) => Len(c.causes) < k

\* C29 witness: the first reply of the first stream is the handler's error,
\* a good reply of another replier is in that stream too, and the call has
\* counted the attempt as failed and issued its second query.
C29_Witness ==
    /\ handler = "add_nonneg" /\ outcomes[1].kind = "Service"
    /\ 1 \in later
    /\ \E v \in Variants :
           /\ calls[v].queries = 2
           /\ Len(calls[v].causes) = 1
           /\ calls[v].causes[1].kind = "ServiceCallFailed"

(***************************************************************************)
(* The locks of the Node (node.rs:204-362), one step per lock(), per       *)
(* critical section and per await. A MutexGuard is released where its      *)
(* scope ends: at the closing brace of the check block, or at the return.  *)
(***************************************************************************)
notLocks == <<objs, pc, op, held, result, callVars, pubsubVars, storeVars, objectVars, handles,
              guardVars, dispatchVars, dropped, declared, duration, later,
              restVars>>

Operations == Kinds \cup {"set_parameter", "get_parameter"}

\* the entry an insert puts into a map; whose Arc it is does not matter to
\* the locks
Entry(kind, n) == NewObject(0, kind, n)

\* the lock an operation takes
LockOf(kind) ==
    CASE kind = "publisher" -> "publishers"
      [] kind = "subscriber" -> "subscribers"
      [] kind = "service" -> "services"
      [] kind = "client" -> "clients"
      [] kind \in {"set_parameter", "get_parameter"} -> "parameters"

\* the pcs at which a caller is inside Mutex::lock
LockPcs == {"lock_check", "lock_store", "lock"}

\* a caller enters a Node operation and goes up to its first lock()
Node_enter(t, kind, n) ==
    /\ lk[t].pc = "idle"
    /\ lk' = [lk EXCEPT ![t] = [pc |-> IF kind \in AsyncKinds THEN "lock_check" ELSE "lock",
                                kind |-> kind, name |-> n]]
    /\ UNCHANGED <<mutex, publishers, subscribers, services, clients, parameters>>
    /\ UNCHANGED notLocks

\* self.<map>.lock() returns the guard
Mutex_lock(t) ==
    /\ lk[t].pc \in LockPcs
    /\ mutex[LockOf(lk[t].kind)] = 0
    /\ mutex' = [mutex EXCEPT ![LockOf(lk[t].kind)] = t]
    /\ lk' = [lk EXCEPT ![t].pc = CASE lk[t].pc = "lock_check" -> "check"
                                    [] lk[t].pc = "lock_store" -> "store"
                                    [] lk[t].pc = "lock" -> "body"]
    /\ UNCHANGED <<publishers, subscribers, services, clients, parameters>>
    /\ UNCHANGED notLocks

\* a check block whose guard lives on to the end of the function
check_block_keeps_guard(t) ==
    /\ lk[t].pc = "check"
    /\ lk' = [lk EXCEPT ![t].pc = IF contains_key(Registry(lk[t].kind), lk[t].name)
                                    THEN "done" ELSE "await"]
    /\ UNCHANGED <<mutex, publishers, subscribers, services, clients, parameters>>
    /\ UNCHANGED notLocks

\* the check block of create_publisher / create_subscriber / create_service:
\* contains_key under the guard, which is dropped at the block's end
check_block(t) ==
    /\ lk[t].pc = "check"
    /\ mutex' = [mutex EXCEPT ![LockOf(lk[t].kind)] = 0]
    /\ lk' = [lk EXCEPT ![t].pc = IF contains_key(Registry(lk[t].kind), lk[t].name)
                                    THEN "done" ELSE "await"]
    /\ UNCHANGED <<publishers, subscribers, services, clients, parameters>>
    /\ UNCHANGED notLocks

\* self.transport.create_*(..).await returns: Ok goes on to the second
\* lock(), Err leaves through ?
transport_returns(t, ok) ==
    /\ lk[t].pc = "await"
    /\ lk' = [lk EXCEPT ![t].pc = IF ok THEN "lock_store" ELSE "done"]
    /\ UNCHANGED <<mutex, publishers, subscribers, services, clients, parameters>>
    /\ UNCHANGED notLocks

\* the insert under the second guard, dropped at the return
store_block(t) ==
    /\ lk[t].pc = "store"
    /\ StoreIn(lk[t].kind, insert(Registry(lk[t].kind), lk[t].name,
                                  Entry(lk[t].kind, lk[t].name)))
    /\ mutex' = [mutex EXCEPT ![LockOf(lk[t].kind)] = 0]
    /\ lk' = [lk EXCEPT ![t].pc = "done"]
    /\ UNCHANGED parameters
    /\ UNCHANGED notLocks

\* the one critical section of create_client, set_parameter(name, v) and
\* get_parameter, from the lock() to the return
body_block(t, v) ==
    /\ lk[t].pc = "body"
    /\ CASE lk[t].kind = "client" ->
              /\ StoreIn("client",
                         IF contains_key(clients, lk[t].name) THEN clients
                         ELSE insert(clients, lk[t].name, Entry("client", lk[t].name)))
              /\ UNCHANGED parameters
         [] lk[t].kind = "set_parameter" ->
              /\ parameters' = IF Parameter_new(lk[t].name, v).ok
                                 THEN insert(parameters, lk[t].name,
                                             Parameter_new(lk[t].name, v).param)
                                 ELSE parameters
              /\ UNCHANGED <<publishers, subscribers, services, clients>>
         [] lk[t].kind = "get_parameter" ->
              UNCHANGED <<publishers, subscribers, services, clients, parameters>>
    /\ mutex' = [mutex EXCEPT ![LockOf(lk[t].kind)] = 0]
    /\ lk' = [lk EXCEPT ![t].pc = "done"]
    /\ UNCHANGED notLocks

\* the operation has returned to its caller
Node_leave(t) ==
    /\ lk[t].pc = "done"
    /\ lk' = [lk EXCEPT ![t] = IdleOp]
    /\ UNCHANGED <<mutex, publishers, subscribers, services, clients, parameters>>
    /\ UNCHANGED notLocks

LockValues == {[type |-> "i32", v |-> 42], [type |-> "map", v |-> "non-string keys"]}

NextLocks ==
    \/ \E t \in Callers, kind \in Operations, n \in Names : Node_enter(t, kind, n)
    \/ \E t \in Callers : Mutex_lock(t)
    \/ \E t \in Callers : check_block(t)
    \/ \E t \in Callers, ok \in BOOLEAN : transport_returns(t, ok)
    \/ \E t \in Callers : store_block(t)
    \/ \E t \in Callers, v \in LockValues : body_block(t, v)
    \/ \E t \in Callers : Node_leave(t)

SpecLocks == Init /\ [][NextLocks]_vars

\* the locks caller t holds
HeldBy(t) == {l \in LockNames : mutex[l] = t}

\* C30: no caller holds more than one of the five registry locks at a time,
\* a lock is held only inside a critical section (never across an await or
\* a return), and a caller that waits for a lock waits for a holder that is
\* itself not waiting: no interleaving of the six operations deadlocks.
C30_OneLockNoDeadlock ==
    /\ \A t \in Callers : Cardinality(HeldBy(t)) <= 1
    /\ \A l \in LockNames :
           mutex[l] # 0 => /\ lk[mutex[l]].pc \in {"check", "store", "body"}
                           /\ LockOf(lk[mutex[l]].kind) = l
    /\ \A t \in Callers :
           lk[t].pc \in LockPcs =>
               LET h == mutex[LockOf(lk[t].kind)] IN
                   h = 0 \/ (h # t /\ lk[h].pc \notin LockPcs)

\* C30 witness: a caller is inside the insert of create_publisher, holding
\* the publishers lock, while another caller waits for that lock in
\* create_publisher's check.
C30_Witness ==
    \E t1, t2 \in Callers :
        /\ lk[t1].pc = "store" /\ lk[t1].kind = "publisher" /\ mutex["publishers"] = t1
        /\ lk[t2].pc = "lock_check" /\ lk[t2].kind = "publisher"

\* caller t takes the step in which the transport makes the object it asked
\* for: the end of the await of the three async creates, the body of
\* create_client when the name is free
Materialises(t) ==
    \/ lk[t].pc = "await" /\ lk'[t].pc # "await"
    \/ /\ lk[t].pc = "body" /\ lk[t].kind = "client"
       /\ ~contains_key(clients, lk[t].name)
       /\ lk'[t].pc = "done"

\* C31 (the claim as stated): for each of the four kinds, the caller does not
\* hold the kind's map lock while the transport makes the object.
C31_LockFreeDuringCreate ==
    [][\A t \in Callers : Materialises(t) => mutex[LockOf(lk[t].kind)] # t]_vars

\* for publishers, subscribers and services the statement holds: no lock at
\* all is held by the caller across the await, and the lock is taken again
\* only to insert
AsyncCreateOutsideLock ==
    \A t \in Callers :
        /\ lk[t].pc \in {"await", "lock_store"} => HeldBy(t) = {}
        /\ lk[t].pc = "store" => HeldBy(t) = {LockOf(lk[t].kind)}

(***************************************************************************)
(* Claims about the termination of a call, checked under SpecBlocking.     *)
(***************************************************************************)
\* call v has returned to its caller, after at most 3 attempts and 2 sleeps
Returned(v) ==
    /\ calls[v].pc = "done"
    /\ calls[v].result.tag \in {"Ok", "Err"}
    /\ calls[v].queries <= 3
    /\ Len(calls[v].sleeps) <= 2

\* C32 (the claim as stated): provided each of its attempts ends, every call
\* that was started returns, after at most 3 attempts and 2 backoff sleeps.
C32_CallTerminates ==
    \A v \in Variants : (calls[v].pc # "idle") ~> Returned(v)

\* the suspending call does return, and so does the blocking one beside a
\* multi-thread runtime
DrivenCallTerminates ==
    /\ (calls["call_async"].pc # "idle") ~> Returned("call_async")
    /\ (calls["call"].pc # "idle" /\ runtime = "multi_thread") ~> Returned("call")

\* no call ever makes more than 3 attempts or 2 sleeps
BoundedAttempts ==
    \A v \in Variants : calls[v].queries <= 3 /\ Len(calls[v].sleeps) <= 2

(***************************************************************************)
(* Claims about the attempts of one call, checked under SpecCall.          *)
(***************************************************************************)
\* the response attempt k's reply decodes to
ResponseOf(k) ==
    AddResponse_decode(FirstReply(outcomes[k], AddRequest_encode(request), handler).bytes).msg

\* attempt k of call c has been made and is over
AttemptOver(c, k) == Len(c.sent) >= k /\ (c.retry_count >= k \/ c.pc = "done")

\* C33: when attempt k (1, 2 or 3) of a call gets a successful reply that
\* decodes, the call returns Ok with that response and attempt k is its last
\* query, whatever the k - 1 attempts before it recorded.
C33_LaterSuccessWins ==
    \A v \in Variants : \A k \in 1..max_retries :
        LET c == calls[v] IN
            (AttemptOver(c, k) /\ FirstReplyGood(k)) =>
                /\ c.pc = "done"
                /\ c.result = Ok(ResponseOf(k))
                /\ c.queries = k
                /\ Len(c.causes) = k - 1

\* C33 witness: a call whose first two attempts failed, for two different
\* causes, has returned Ok with the response of its third attempt.
C33_Witness ==
    \E v \in Variants :
        LET c == calls[v] IN
            /\ c.pc = "done" /\ c.queries = 3
            /\ FirstReplyGood(3)
            /\ c.result = Ok(ResponseOf(3))
            /\ Len(c.causes) = 2 /\ c.causes[1] # c.causes[2]
            /\ c.last_error # None

\* C34: a backoff sleep occurs only between two attempts. While attempt n is
\* in progress, and when the call has returned after n attempts, n - 1 sleeps
\* have been completed; a sleep in progress follows attempt 1 or 2, never the
\* third; after the third failed attempt the call has returned.
C34_SleepsBetweenAttempts ==
    \A v \in Variants :
        LET c == calls[v] IN
            /\ c.pc \in {"get", "recv"} => Len(c.sleeps) = c.queries - 1
            /\ (c.pc = "done" /\ c.result.tag # "Panic") =>
                   (c.queries \in 1..3 /\ Len(c.sleeps) = c.queries - 1)
            /\ c.pc = "sleep" =>
                   (c.queries \in 1..2 /\ Len(c.sleeps) = c.queries - 1
                        /\ c.retry_count = c.queries)
            /\ c.retry_count = max_retries => (c.pc = "done" /\ c.result.tag = "Err")
            /\ c.queries = 0 => c.sleeps = <<>>

\* C34 witness: a call has returned its error after three failed attempts and
\* exactly two sleeps, while the other call is in the sleep between its first
\* and its second attempt.
C34_Witness ==
    /\ Exhausted(calls["call"])
    /\ calls["call"].queries = 3 /\ Len(calls["call"].sleeps) = 2
    /\ calls["call_async"].pc = "sleep"
    /\ calls["call_async"].queries = 1 /\ calls["call_async"].sleeps = <<>>

(***************************************************************************)
(* Claims about create_client and about failed creations, checked under    *)
(* Spec. create_client is one step: its guard on the clients lock lives    *)
(* from node.rs:317 to the return.                                         *)
(***************************************************************************)
\* caller t has a finished create_client for name n in hand
ClientDone(t, n) == pc[t] = "done" /\ op[t] = [kind |-> "client", name |-> n]

\* C35: create_client checks, creates and inserts in one critical section.
\* Of the create_client calls for one name exactly one succeeds, the one whose
\* client is registered; every other returns ServiceAlreadyExists and gets no
\* client; and a registered client is never replaced.
C35_OneClientPerName ==
    [][/\ \A n \in DOMAIN clients : n \in DOMAIN clients' /\ clients'[n] = clients[n]
       /\ \A t \in Callers, n \in Names :
            (Started(t) /\ op'[t] = [kind |-> "client", name |-> n]) =>
                /\ pc'[t] = "done"
                /\ contains_key(clients', n)
                /\ IF contains_key(clients, n)
                     THEN /\ result'[t] = "ServiceAlreadyExists"
                          /\ held'[t] = NoObj /\ objs' = objs
                     ELSE /\ result'[t] = "Ok"
                          /\ clients'[n] = held'[t] /\ held'[t].owner = t
       /\ \A n \in Names :
            Cardinality({t \in Callers : ClientDone(t, n)' /\ result'[t] = "Ok"}) <= 1]_vars

\* C35 witness: two callers have called create_client with one name; one has
\* Ok and its client is the registered one, the other ServiceAlreadyExists.
C35_Witness ==
    \E t1, t2 \in Callers : \E n \in Names :
        /\ ClientDone(t1, n) /\ result[t1] = "Ok" /\ clients[n] = held[t1]
        /\ ClientDone(t2, n) /\ result[t2] = "ServiceAlreadyExists" /\ held[t2] = NoObj

\* caller t's create returns the transport's error in this step
TransportFails(t) == result[t] # "Transport" /\ result'[t] = "Transport"

\* C36: a create whose transport creation fails returns that error and
\* inserts nothing: the four maps and the set of transport objects are as
\* before, the caller gets no object, and the name stays free for a later
\* create of the kind, which is rejected as a duplicate only when a
\* successfully created object is registered under the name.
C36_FailedCreateInsertsNothing ==
    [][\A t \in Callers :
         /\ TransportFails(t) =>
                /\ pc'[t] = "done" /\ held'[t] = NoObj
                /\ UNCHANGED <<publishers, subscribers, services, clients, objs>>
                /\ \A u \in Callers \ {t} : UNCHANGED <<pc[u], result[u]>>
         /\ (Started(t) /\ result'[t] \in NameErrors) =>
                /\ contains_key(Registry(op'[t].kind), op'[t].name)
                /\ Registry(op'[t].kind)[op'[t].name] \in objs
                /\ \A u \in Callers :
                       (result[u] = "Transport" /\ op[u] = op'[t]) =>
                           Registry(op'[t].kind)[op'[t].name].owner # u]_vars

\* C36 witness: a create has failed in the transport, and a later create of
\* the same kind and name by another caller has passed the existence check,
\* got its object and registered it.
C36_Witness ==
    \E t, u \in Callers :
        /\ pc[t] = "done" /\ result[t] = "Transport"
        /\ pc[u] = "done" /\ result[u] = "Ok" /\ op[u] = op[t]
        /\ ~Registered(NewObject(t, op[t].kind, op[t].name))
        /\ Registry(op[u].kind)[op[u].name] = held[u]

(***************************************************************************)
(* Claims about timed-out attempts, checked under SpecTimeout.             *)
(***************************************************************************)
\* attempt k of call c ran into the timeout of its query and is over
TimedOut(c, k) == AttemptOver(c, k) /\ Len(c.causes) >= k /\ outcomes[k] \in TimeoutOutcomes

\* C37 (the claim as stated): an attempt that gets no reply before its
\* timeout is recorded as ServiceCallFailed with a "No response" reason, and
\* no call returns or records ServiceCallTimeout.
C37_TimeoutIsNoResponse ==
    \A v \in Variants :
        LET c == calls[v] IN
            /\ \A k \in 1..max_retries :
                   TimedOut(c, k) => /\ c.causes[k].kind = "ServiceCallFailed"
                                     /\ c.causes[k].reason[1] = "No response"
            /\ \A k \in 1..Len(c.causes) : c.causes[k].kind # "ServiceCallTimeout"
            /\ c.result.tag = "Err" => c.result.err.kind # "ServiceCallTimeout"

\* what does hold: a timed-out attempt is recorded as ServiceCallFailed, with
\* the reason of the arm the transport's way of ending the query leads to,
\* and ServiceCallTimeout is never recorded or returned
TimeoutIsServiceCallFailed ==
    \A v \in Variants :
        LET c == calls[v] IN
            /\ \A k \in 1..max_retries :
                   TimedOut(c, k) =>
                       /\ c.causes[k].kind = "ServiceCallFailed"
                       /\ c.causes[k].reason[1] =
                              (IF outcomes[k].kind = "NoReply" THEN "No response"
                                                               ELSE "Error in response")
            /\ \A k \in 1..Len(c.causes) :
                   c.causes[k].kind \in {"Transport", "Decoding", "ServiceCallFailed"}
            /\ c.result.tag = "Err" =>
                   c.result.err.kind \in {"Transport", "Decoding", "ServiceCallFailed"}

(***************************************************************************)
(* Claims about the subscriber's decoding, checked under SpecSubscribe.    *)
(***************************************************************************)
\* the bytes of a logged publish
PayloadOf(e) == IF "raw" \in DOMAIN e.msg THEN e.msg.raw ELSE TestMessage_encode(e.msg)

\* the payload of publish call i on adapter a has been handed to the
\* subscriber: by the substrate to the closure of the live adapter, by the
\* loop over the topic's list to the callback of the in-memory one
Handed(a, i) ==
    IF a = "zenoh" THEN publishedLog[a][i].subscribed /\ ~InFlight(a, i)
    ELSE endpoints[a].subscriber /\ ~publishedLog[a][i].subscribed

\* C38: the callback is invoked exactly when the payload handed to the
\* subscriber decodes as the subscribed type, once and with the decoded
\* message; a payload that does not decode causes no invocation and nothing
\* else, and the payloads behind it are delivered in their order.
C38_CallbackIffDecodes ==
    \A a \in Adapters :
        /\ \A i \in 1..Len(publishedLog[a]) :
               LET d == TestMessage_decode(PayloadOf(publishedLog[a][i])) IN
                   IF Handed(a, i) /\ d.ok
                     THEN /\ Cardinality(Invocations(a, i)) = 1
                          /\ \A k \in Invocations(a, i) : deliveries[a][k].msg = d.msg
                     ELSE Invocations(a, i) = {}
        /\ \A k \in 1..Len(deliveries[a]) :
               /\ deliveries[a][k].id \in 1..Len(publishedLog[a])
               /\ \A j \in 1..(k - 1) : deliveries[a][j].id < deliveries[a][k].id

\* C38 witness: on each adapter the subscriber was handed a payload that
\* does not decode and, after it, one that does: the callback has run once,
\* for the second.
C38_Witness ==
    \A a \in Adapters :
        /\ Len(publishedLog[a]) = 2
        /\ Handed(a, 1) /\ Handed(a, 2)
        /\ ~TestMessage_decode(PayloadOf(publishedLog[a][1])).ok
        /\ Len(deliveries[a]) = 1
        /\ deliveries[a][1] = [msg |-> publishedLog[a][2].msg, id |-> 2]

(***************************************************************************)
(* Claims about calls on the in-memory adapter, checked under SpecMockRpc. *)
(***************************************************************************)
\* what the handler registered at the time of call L returns for L's request
HandlerResult(L) ==
    IF L.service = NoService THEN [ok |-> FALSE, err |-> "no handler"]
    ELSE LET d == AddRequest_decode(Req_encode(L.req)) IN
             IF d.ok THEN Handle(L.service.h, d.msg) ELSE [ok |-> FALSE, err |-> "no request"]

\* C39 (the claim as stated): a call on the in-memory adapter returns
\* Ok(res) whenever the registered handler returns Ok(res) for the decoded
\* request, whatever res encodes to; it returns ServiceCallFailed only when
\* no handler is registered, the request does not decode or the handler
\* returns an error; call and call_async return the same result.
C39_MockCallReturnsHandlerResult ==
    /\ \A v \in Variants :
           LET L == mockRpc.last[v] IN
               L.made =>
                   /\ HandlerResult(L).ok => L.result = Ok(HandlerResult(L).res)
                   /\ (L.result.tag = "Err" /\ L.result.err.kind = "ServiceCallFailed") =>
                          ~HandlerResult(L).ok
    /\ LET L1 == mockRpc.last["call"]
           L2 == mockRpc.last["call_async"] IN
           (L1.made /\ L2.made /\ L1.service = L2.service /\ L1.req = L2.req) =>
               L1.result = L2.result

\* what does hold: the handler's Ok(res) is returned when the encoding of res
\* is not empty, and is turned into ServiceCallFailed when it is; the two
\* entry points agree
MockCallReturnsNonEmptyResult ==
    /\ \A v \in Variants :
           LET L == mockRpc.last[v]
               r == HandlerResult(L) IN
               L.made =>
                   /\ (r.ok /\ Res_encode(L.service.res, r.res) # <<>>) => L.result = Ok(r.res)
                   /\ (r.ok /\ Res_encode(L.service.res, r.res) = <<>>) =>
                          L.result = Err(service_call_failed(<<"add">>))
                   /\ ~r.ok => (L.result.tag = "Err" /\ L.result.err.kind = "ServiceCallFailed")
    /\ LET L1 == mockRpc.last["call"]
           L2 == mockRpc.last["call_async"] IN
           (L1.made /\ L2.made /\ L1.service = L2.service /\ L1.req = L2.req) =>
               L1.result = L2.result
====
